---- MODULE Spec2Model ----
(***************************************************************************)
(* Fox JSON Schema Editor: the text <-> tree synchronizer (JsonSchemaEditor *)
(* component), the shape validator (lib/schemaValidator), the visual tree   *)
(* editor (SchemaVisualEditor.vue and its later revision with sort/nest     *)
(* drag modes) and the object sub-editor (ObjectPropertyEditor).            *)
(*                                                                         *)
(* Raw text is a TLA+ string and JSON.parse / JSON.stringify work on its    *)
(* characters.  A JSON value is a record [k |-> kind, v |-> payload]; an    *)
(* object's payload is the sequence of its <<key, value>> entries in        *)
(* enumeration order.  A JavaScript object reference into the tree is a     *)
(* location: the sequence of property keys leading to the node.             *)
(***************************************************************************)
EXTENDS Integers, Sequences, FiniteSets, TLC

(***************************************************************************)
(* Strings                                                                 *)
(***************************************************************************)
Char(s, i) == SubSeq(s, i, i)

Digits == {"0", "1", "2", "3", "4", "5", "6", "7", "8", "9"}

WhiteSpace == {" ", "\n", "\t", "\r"}

DigitVal(c) == CHOOSE d \in 0..9 : ToString(d) = c

\* String.prototype.startsWith
StartsWith(s, p) == Len(p) <= Len(s) /\ SubSeq(s, 1, Len(p)) = p

RECURSIVE TrimLeft(_)
TrimLeft(s) ==
  IF Len(s) > 0 /\ Char(s, 1) \in WhiteSpace THEN TrimLeft(SubSeq(s, 2, Len(s))) ELSE s

RECURSIVE TrimRight(_)
TrimRight(s) ==
  IF Len(s) > 0 /\ Char(s, Len(s)) \in WhiteSpace THEN TrimRight(SubSeq(s, 1, Len(s) - 1)) ELSE s

\* String.prototype.trim
Trim(s) == TrimRight(TrimLeft(s))

\* String.prototype.split('.'): the segments between the dots, empty ones included
RECURSIVE SplitFrom(_, _, _)
SplitFrom(s, i, cur) ==
  IF i > Len(s) THEN <<cur>>
  ELSE IF Char(s, i) = "." THEN <<cur>> \o SplitFrom(s, i + 1, "")
  ELSE SplitFrom(s, i + 1, cur \o Char(s, i))

Split(s) == SplitFrom(s, 1, "")

RECURSIVE Repeat(_, _)
\* String.prototype.repeat, by halves
Repeat(s, n) ==
  IF n <= 0 THEN ""
  ELSE LET half == Repeat(s, n \div 2)
       IN  IF n % 2 = 1 THEN half \o half \o s ELSE half \o half

(***************************************************************************)
(* JSON values                                                             *)
(***************************************************************************)
Undefined == [k |-> "undefined", v |-> 0]
JNull     == [k |-> "null", v |-> 0]
JNaN      == [k |-> "nan", v |-> 0]
JInf      == [k |-> "inf", v |-> 0]
JBool(b)  == [k |-> "bool", v |-> b]
JNum(n)   == [k |-> "num", v |-> n]
JStr(s)   == [k |-> "str", v |-> s]
JArr(a)   == [k |-> "arr", v |-> a]
JObj(es)  == [k |-> "obj", v |-> es]

IsObj(x) == x.k = "obj"
IsArr(x) == x.k = "arr"
IsStr(x) == x.k = "str"
IsNum(x) == x.k = "num"

\* typeof x === 'object' && x !== null
IsObjectLike(x) == x.k \in {"obj", "arr"}

\* JavaScript truthiness
Truthy(x) ==
  CASE x.k \in {"undefined", "null", "nan"} -> FALSE
    [] x.k = "bool" -> x.v
    [] x.k = "num" -> x.v # 0
    [] x.k = "str" -> x.v # ""
    [] OTHER -> TRUE

EntryIndex(es, key) ==
  IF \E i \in 1..Len(es) : es[i][1] = key
  THEN CHOOSE i \in 1..Len(es) : es[i][1] = key
  ELSE 0

\* an own property of an object; characters of a string and elements of an
\* array are not modelled as properties
HasKey(x, key) == IsObj(x) /\ EntryIndex(x.v, key) > 0

\* x[key]
Get(x, key) == IF HasKey(x, key) THEN x.v[EntryIndex(x.v, key)][2] ELSE Undefined

\* Object.keys(x)
Keys(x) == IF IsObj(x) THEN [i \in 1..Len(x.v) |-> x.v[i][1]] ELSE <<>>

RECURSIVE StrNum(_, _)
StrNum(s, acc) == IF s = "" THEN acc ELSE StrNum(SubSeq(s, 2, Len(s)), 10 * acc + DigitVal(Char(s, 1)))

\* an integer-like key ("0", "7", "12"): such keys enumerate first, ascending
IsIndexKey(key) ==
  /\ Len(key) > 0
  /\ Len(key) <= 6
  /\ \A i \in 1..Len(key) : Char(key, i) \in Digits
  /\ (Len(key) > 1 => Char(key, 1) # "0")

RECURSIVE InsertPos(_, _, _)
InsertPos(es, key, i) ==
  IF i > Len(es) THEN i
  ELSE IF ~IsIndexKey(es[i][1]) THEN i
  ELSE IF StrNum(es[i][1], 0) > StrNum(key, 0) THEN i
  ELSE InsertPos(es, key, i + 1)

InsertAt(s, i, e) == SubSeq(s, 1, i - 1) \o <<e>> \o SubSeq(s, i, Len(s))

RemoveAt(s, i) == SubSeq(s, 1, i - 1) \o SubSeq(s, i + 1, Len(s))

\* x[key] = val on an object: an existing key keeps its place, a new one goes
\* to the end, or among the integer-like keys in ascending order
Set(x, key, val) ==
  IF HasKey(x, key)
  THEN JObj([x.v EXCEPT ![EntryIndex(x.v, key)] = <<key, val>>])
  ELSE IF IsIndexKey(key)
  THEN JObj(InsertAt(x.v, InsertPos(x.v, key, 1), <<key, val>>))
  ELSE JObj(Append(x.v, <<key, val>>))

\* delete x[key]
Delete(x, key) == IF HasKey(x, key) THEN JObj(RemoveAt(x.v, EntryIndex(x.v, key))) ELSE x

RECURSIVE FromEntries(_, _)
FromEntries(es, acc) ==
  IF es = <<>> THEN acc ELSE FromEntries(Tail(es), Set(acc, es[1][1], es[1][2]))

\* Array.prototype.indexOf, 1-based, 0 when absent
IndexOf(a, e) ==
  IF \E i \in 1..Len(a) : a[i] = e
  THEN CHOOSE i \in 1..Len(a) : a[i] = e /\ \A j \in 1..(i - 1) : a[j] # e
  ELSE 0

(***************************************************************************)
(* JSON.stringify                                                          *)
(***************************************************************************)
\* strings of the model hold no quote, backslash or control character
Quote(s) == "\"" \o s \o "\""

RECURSIVE Present(_)
\* the entries whose value is not undefined: JSON.stringify leaves the others out
Present(es) ==
  IF es = <<>> THEN <<>>
  ELSE IF es[1][2].k = "undefined" THEN Present(Tail(es))
  ELSE <<es[1]>> \o Present(Tail(es))

\* the line break and the indentation before an entry, an item or a closing
\* bracket
Indent(ind, depth) == IF ind > 0 THEN "\n" \o Repeat(" ", ind * depth) ELSE ""

RECURSIVE Stringify(_, _, _)
RECURSIVE StringifyEntries(_, _, _, _)
RECURSIVE StringifyItems(_, _, _, _)

\* the entries es (one at least, none undefined) after the text before them
StringifyEntries(es, ind, depth, before) ==
  (before \o Indent(ind, depth) \o Quote(es[1][1]) \o (IF ind > 0 THEN ": " ELSE ":"))
  \o Stringify(es[1][2], ind, depth)
  \o (IF Len(es) = 1 THEN "" ELSE StringifyEntries(Tail(es), ind, depth, ","))

\* the items a (one at least) after the text before them
StringifyItems(a, ind, depth, before) ==
  (before \o Indent(ind, depth))
  \o (IF a[1].k = "undefined" THEN "null" ELSE Stringify(a[1], ind, depth))
  \o (IF Len(a) = 1 THEN "" ELSE StringifyItems(Tail(a), ind, depth, ","))

Stringify(x, ind, depth) ==
  CASE x.k = "null" -> "null"
    [] x.k = "nan" -> "null"
    [] x.k = "inf" -> "null"
    [] x.k = "bool" -> IF x.v THEN "true" ELSE "false"
    [] x.k = "num" -> ToString(x.v)
    [] x.k = "str" -> Quote(x.v)
    [] x.k = "arr" /\ x.v = <<>> -> "[]"
    [] x.k = "arr" /\ x.v # <<>> ->
         StringifyItems(x.v, ind, depth + 1, "[") \o (Indent(ind, depth) \o "]")
    [] x.k = "obj" /\ Present(x.v) = <<>> -> "{}"
    [] x.k = "obj" /\ Present(x.v) # <<>> ->
         StringifyEntries(Present(x.v), ind, depth + 1, "{") \o (Indent(ind, depth) \o "}")
    [] OTHER -> ""

\* JSON.stringify(x) and JSON.stringify(x, null, 2)
JSONstringify(x) == Stringify(x, 0, 0)
JSONstringify2(x) == Stringify(x, 2, 0)

(***************************************************************************)
(* JSON.parse: a result is [ok, val, pos], pos the index after the value    *)
(***************************************************************************)
Fail == [ok |-> FALSE, val |-> Undefined, pos |-> 0]
Ok(val, pos) == [ok |-> TRUE, val |-> val, pos |-> pos]

\* the first index from i on that holds no white space
SkipWs(s, i) ==
  IF i > Len(s) THEN i
  ELSE CHOOSE j \in i..(Len(s) + 1) :
         /\ \A k \in i..(j - 1) : Char(s, k) \in WhiteSpace
         /\ j > Len(s) \/ Char(s, j) \notin WhiteSpace

\* index of the closing quote of the string whose content starts at i, 0 if none
StringEnd(s, i) ==
  LET Stops == {"\"", "\\", "\n", "\t", "\r"}
      First(j) == Char(s, j) \in Stops /\ \A k \in i..(j - 1) : Char(s, k) \notin Stops
  IN  IF \E j \in i..Len(s) : First(j) /\ Char(s, j) = "\""
      THEN CHOOSE j \in i..Len(s) : First(j)
      ELSE 0

\* the first index from i on that holds no digit
DigitsEnd(s, i) ==
  IF i > Len(s) THEN i
  ELSE CHOOSE j \in i..(Len(s) + 1) :
         /\ \A k \in i..(j - 1) : Char(s, k) \in Digits
         /\ j > Len(s) \/ Char(s, j) \notin Digits

ParseString(s, i) ==
  LET Upto(e) == IF e = 0 THEN Fail ELSE Ok(SubSeq(s, i + 1, e - 1), e + 1)
  IN  IF i <= Len(s) /\ Char(s, i) = "\"" THEN Upto(StringEnd(s, i + 1)) ELSE Fail

\* the largest decimal exponent of a double
MaxExponent == 308

RECURSIVE Pow10(_)
Pow10(n) == IF n = 0 THEN 1 ELSE 10 * Pow10(n - 1)

\* a number token: an integer with an optional exponent without sign; a value
\* beyond the range of a double is Infinity (fractions and negative exponents
\* are not modelled)
ParseNumber(s, i) ==
  LET neg == i <= Len(s) /\ Char(s, i) = "-"
      b   == IF neg THEN i + 1 ELSE i
      Signed(n) == IF neg THEN 0 - n ELSE n
      Power(n, exp, e) ==
        IF n = 0 THEN Ok(JNum(0), e)
        ELSE IF Len(exp) > 3 \/ StrNum(exp, 0) > MaxExponent THEN Ok(JInf, e)
        ELSE Ok(JNum(Signed(n * Pow10(StrNum(exp, 0)))), e)
      Scaled(n, x, e) == IF e = x THEN Fail ELSE Power(n, SubSeq(s, x, e - 1), e)
      Upto(e) ==
        LET txt == SubSeq(s, b, e - 1)
        IN  IF e = b \/ (Len(txt) > 1 /\ Char(txt, 1) = "0") THEN Fail
            ELSE IF e <= Len(s) /\ Char(s, e) \in {"e", "E"}
            THEN Scaled(StrNum(txt, 0), e + 1, DigitsEnd(s, e + 1))
            ELSE Ok(JNum(Signed(StrNum(txt, 0))), e)
  IN  Upto(DigitsEnd(s, b))

RECURSIVE ParseValue(_, _)
RECURSIVE ParseMembers(_, _, _)
RECURSIVE ParseElements(_, _, _)

\* i is at the first non-blank character after "{" or ","; the member is a
\* key, a colon and a value, and "}" or "," follows it
ParseMembers(s, i, acc) ==
  LET key == ParseString(s, i)
      c   == SkipWs(s, key.pos)
      val == ParseValue(s, c + 1)
      n   == SkipWs(s, val.pos)
  IN  IF /\ key.ok
         /\ c <= Len(s)
         /\ Char(s, c) = ":"
         /\ val.ok
         /\ n <= Len(s)
      THEN CASE Char(s, n) = "}" -> Ok(Set(acc, key.val, val.val), n + 1)
             [] Char(s, n) = "," ->
                  ParseMembers(s, SkipWs(s, n + 1), Set(acc, key.val, val.val))
             [] OTHER -> Fail
      ELSE Fail

ParseElements(s, i, acc) ==
  LET val == ParseValue(s, i)
      n   == SkipWs(s, val.pos)
  IN  IF val.ok /\ n <= Len(s)
      THEN CASE Char(s, n) = "]" -> Ok(JArr(Append(acc, val.val)), n + 1)
             [] Char(s, n) = "," -> ParseElements(s, n + 1, Append(acc, val.val))
             [] OTHER -> Fail
      ELSE Fail

ParseValue(s, i0) ==
  LET i == SkipWs(s, i0)
      c == IF i > Len(s) THEN "" ELSE Char(s, i)
      j == SkipWs(s, i + 1)
      Closed(by) == j <= Len(s) /\ Char(s, j) = by
      Str(r) == IF r.ok THEN Ok(JStr(r.val), r.pos) ELSE Fail
      Word(w) == i + Len(w) - 1 <= Len(s) /\ SubSeq(s, i, i + Len(w) - 1) = w
  IN  CASE c = "" -> Fail
        [] c = "{" /\ Closed("}") -> Ok(JObj(<<>>), j + 1)
        [] c = "{" /\ ~Closed("}") -> ParseMembers(s, j, JObj(<<>>))
        [] c = "[" /\ Closed("]") -> Ok(JArr(<<>>), j + 1)
        [] c = "[" /\ ~Closed("]") -> ParseElements(s, j, <<>>)
        [] c = "\"" -> Str(ParseString(s, i))
        [] c = "t" -> IF Word("true") THEN Ok(JBool(TRUE), i + 4) ELSE Fail
        [] c = "f" -> IF Word("false") THEN Ok(JBool(FALSE), i + 5) ELSE Fail
        [] c = "n" -> IF Word("null") THEN Ok(JNull, i + 4) ELSE Fail
        [] OTHER -> ParseNumber(s, i)

\* JSON.parse(s): ok = FALSE stands for the SyntaxError
JSONparse(s) ==
  CHOOSE whole \in {IF r.ok /\ SkipWs(s, r.pos) > Len(s) THEN r ELSE Fail :
                    r \in {ParseValue(s, 1)}} : TRUE

\* JSON.parse(JSON.stringify(x)), the deep copy used throughout
DeepCopy(x) == JSONparse(JSONstringify(x)).val

(***************************************************************************)
(* lib/schemaValidator                                                     *)
(***************************************************************************)
SUPPORTED_TYPES == <<"string", "number", "integer", "boolean", "array", "object">>

SupportedTypeSet == {SUPPORTED_TYPES[i] : i \in 1..Len(SUPPORTED_TYPES)}

\* obj.type === t
TypeIs(obj, t) == Get(obj, "type") = JStr(t)

\* Number(x): a JNum, or JNaN
ToNumber(x) ==
  CASE x.k = "num" -> x
    [] x.k = "null" -> JNum(0)
    [] x.k = "bool" -> JNum(IF x.v THEN 1 ELSE 0)
    [] x.k = "str" ->
         CHOOSE n \in
           {IF t = "" THEN JNum(0)
            ELSE CHOOSE m \in {IF r.ok /\ r.pos = Len(t) + 1 THEN r.val ELSE JNaN :
                               r \in {ParseNumber(t, 1)}} : TRUE :
            t \in {Trim(x.v)}} : TRUE
    [] x.k = "arr" -> IF x.v = <<>> THEN JNum(0) ELSE JNaN
    [] OTHER -> JNaN

\* a > b, a >= b and a <= b on operands compared as numbers; NaN compares false
JSgt(a, b) == ToNumber(a).k = "num" /\ ToNumber(b).k = "num" /\ ToNumber(a).v > ToNumber(b).v
JSge(a, b) == ToNumber(a).k = "num" /\ ToNumber(b).k = "num" /\ ToNumber(a).v >= ToNumber(b).v
JSlt(a, b) == ToNumber(a).k = "num" /\ ToNumber(b).k = "num" /\ ToNumber(a).v < ToNumber(b).v
JSle(a, b) == ToNumber(a).k = "num" /\ ToNumber(b).k = "num" /\ ToNumber(a).v <= ToNumber(b).v

Defined(x) == x.k # "undefined"

RECURSIVE ParenDepth(_, _, _)
\* the nesting depth after the last character, -1 once a ")" closes nothing
ParenDepth(s, i, d) ==
  IF d < 0 THEN d
  ELSE IF i > Len(s) THEN d
  ELSE IF Char(s, i) = "(" THEN ParenDepth(s, i + 1, d + 1)
  ELSE IF Char(s, i) = ")" THEN ParenDepth(s, i + 1, d - 1)
  ELSE ParenDepth(s, i + 1, d)

\* new RegExp(p) does not throw: the groups of the pattern are balanced
RegExpValid(p) == IsStr(p) => ParenDepth(p.v, 1, 0) = 0

\* Object.entries(x)
Entries(x) ==
  CASE x.k = "obj" -> x.v
    [] x.k = "arr" -> [i \in 1..Len(x.v) |-> <<ToString(i - 1), x.v[i]>>]
    [] OTHER -> <<>>

\* the names every object inherits from Object.prototype
ObjectPrototypeKeys ==
  {"constructor", "hasOwnProperty", "isPrototypeOf", "propertyIsEnumerable",
   "toLocaleString", "toString", "valueOf", "__proto__"}

\* key in x, own or inherited; a TypeError when x is a primitive
InThrows(x) == ~IsObjectLike(x)
In(key, x) ==
  CASE x.k = "obj" -> HasKey(x, key) \/ key \in ObjectPrototypeKeys
    [] x.k = "arr" -> key = "length" \/ (IsIndexKey(key) /\ StrNum(key, 0) < Len(x.v))
    [] OTHER -> FALSE

NoFindings == [errors |-> <<>>, warnings |-> <<>>, threw |-> FALSE]

\* findings of a then, unless a threw, those of b
Then(a, b) ==
  IF a.threw THEN a
  ELSE [errors |-> a.errors \o b.errors, warnings |-> a.warnings \o b.warnings, threw |-> b.threw]

Err(cond, msg) == IF cond THEN [NoFindings EXCEPT !.errors = <<msg>>] ELSE NoFindings

RECURSIVE Flatten(_)
\* the sequences of seqs, one after the other
Flatten(seqs) == IF seqs = <<>> THEN <<>> ELSE Head(seqs) \o Flatten(Tail(seqs))

\* the findings of the checks fs in their order, up to the first that threw
Combine(fs) ==
  IF fs = <<>> THEN NoFindings
  ELSE LET threw == \E k \in 1..Len(fs) : fs[k].threw
           stop  == IF threw
                    THEN CHOOSE k \in 1..Len(fs) :
                           fs[k].threw /\ \A j \in 1..(k - 1) : ~fs[j].threw
                    ELSE Len(fs)
       IN  [errors |-> Flatten([k \in 1..stop |-> fs[k].errors]),
            warnings |-> Flatten([k \in 1..stop |-> fs[k].warnings]),
            threw |-> threw]

RECURSIVE validateSchemaStructure(_, _)
RECURSIVE ValidateProperties(_, _)
RECURSIVE CheckRequired(_, _, _)

\* the findings of the properties es, one after the other
ValidateProperties(es, path) ==
  IF es = <<>> THEN <<>>
  ELSE <<validateSchemaStructure(es[1][2], path \o ".properties." \o es[1][1])>>
       \o ValidateProperties(Tail(es), path)

CheckRequired(req, properties, path) ==
  IF req = <<>> THEN NoFindings
  ELSE IF InThrows(properties) THEN [NoFindings EXCEPT !.threw = TRUE]
  ELSE Then(IF IsStr(req[1]) /\ In(req[1].v, properties) THEN NoFindings
            ELSE [NoFindings EXCEPT !.warnings = <<path \o ": required not in properties">>],
            CheckRequired(Tail(req), properties, path))

\* the checks of a node in the order of the source; a check of another type
\* finds nothing
validateSchemaStructure(obj, path) ==
  IF ~IsObjectLike(obj) THEN NoFindings
  ELSE
    LET type       == Get(obj, "type")
        properties == Get(obj, "properties")
        required   == Get(obj, "required")
        isNumber   == TypeIs(obj, "number") \/ TypeIs(obj, "integer")
        isString   == TypeIs(obj, "string")
        isArray    == TypeIs(obj, "array")
        isObject   == TypeIs(obj, "object")
    IN  Combine(
          <<Err(Truthy(type) /\ ~(IsStr(type) /\ type.v \in SupportedTypeSet),
                path \o ": unsupported type"),
            Err(/\ isNumber
                /\ Defined(Get(obj, "minimum"))
                /\ Defined(Get(obj, "maximum"))
                /\ JSgt(Get(obj, "minimum"), Get(obj, "maximum")),
                path \o ": minimum > maximum"),
            Err(/\ isNumber
                /\ Defined(Get(obj, "exclusiveMinimum"))
                /\ Defined(Get(obj, "exclusiveMaximum"))
                /\ JSge(Get(obj, "exclusiveMinimum"), Get(obj, "exclusiveMaximum")),
                path \o ": exclusiveMinimum >= exclusiveMaximum"),
            Err(/\ isNumber
                /\ Defined(Get(obj, "multipleOf"))
                /\ JSle(Get(obj, "multipleOf"), JNum(0)),
                path \o ": multipleOf <= 0"),
            Err(/\ isString
                /\ Defined(Get(obj, "minLength"))
                /\ Defined(Get(obj, "maxLength"))
                /\ JSgt(Get(obj, "minLength"), Get(obj, "maxLength")),
                path \o ": minLength > maxLength"),
            Err(/\ isString
                /\ Defined(Get(obj, "minLength"))
                /\ JSlt(Get(obj, "minLength"), JNum(0)),
                path \o ": minLength < 0"),
            Err(/\ isString
                /\ Truthy(Get(obj, "pattern"))
                /\ ~RegExpValid(Get(obj, "pattern")),
                path \o ": pattern is not a regular expression"),
            Err(/\ isArray
                /\ Defined(Get(obj, "minItems"))
                /\ Defined(Get(obj, "maxItems"))
                /\ JSgt(Get(obj, "minItems"), Get(obj, "maxItems")),
                path \o ": minItems > maxItems"),
            Err(/\ isArray
                /\ Defined(Get(obj, "minItems"))
                /\ JSlt(Get(obj, "minItems"), JNum(0)),
                path \o ": minItems < 0"),
            IF isArray /\ Truthy(Get(obj, "items"))
            THEN validateSchemaStructure(Get(obj, "items"), path \o ".items")
            ELSE NoFindings,
            Err(/\ isObject
                /\ Defined(Get(obj, "minProperties"))
                /\ Defined(Get(obj, "maxProperties"))
                /\ JSgt(Get(obj, "minProperties"), Get(obj, "maxProperties")),
                path \o ": minProperties > maxProperties"),
            Err(/\ isObject
                /\ Defined(Get(obj, "minProperties"))
                /\ JSlt(Get(obj, "minProperties"), JNum(0)),
                path \o ": minProperties < 0")>>
          \o ValidateProperties(IF isObject /\ Truthy(properties)
                                THEN Entries(properties) ELSE <<>>, path)
          \o <<IF isObject /\ Truthy(required) /\ IsArr(required)
               THEN CheckRequired(required.v,
                                  IF Truthy(properties) THEN properties ELSE JObj(<<>>),
                                  path)
               ELSE NoFindings,
               Err(IsArr(Get(obj, "enum")) /\ Get(obj, "enum").v = <<>>,
                   path \o ": enum is empty")>>)

\* the types the draft-07 meta-schema admits
SimpleTypes == {"array", "boolean", "integer", "null", "number", "object", "string"}

IsNatural(x) == ~Defined(x) \/ (IsNum(x) /\ x.v >= 0)
IsNumberOrAbsent(x) == ~Defined(x) \/ IsNum(x)
IsStringOrAbsent(x) == ~Defined(x) \/ IsStr(x)

\* an array of strings, no two equal
UniqueStrings(a) ==
  /\ \A i \in 1..Len(a) : IsStr(a[i])
  /\ \A i, j \in 1..Len(a) : a[i] = a[j] => i = j

RECURSIVE MetaSchemaValid(_)
\* the schema meets the draft-07 meta-schema, over the keywords the editor
\* reads and writes
MetaSchemaValid(s) ==
  IF s.k = "bool" THEN TRUE
  ELSE IF ~IsObj(s) THEN FALSE
  ELSE
    LET type       == Get(s, "type")
        properties == Get(s, "properties")
        required   == Get(s, "required")
        items      == Get(s, "items")
        additional == Get(s, "additionalProperties")
    IN  /\ \/ ~Defined(type)
           \/ IsStr(type) /\ type.v \in SimpleTypes
           \/ /\ IsArr(type) /\ type.v # <<>> /\ UniqueStrings(type.v)
              /\ \A i \in 1..Len(type.v) : type.v[i].v \in SimpleTypes
        /\ \/ ~Defined(properties)
           \/ /\ IsObj(properties)
              /\ \A i \in 1..Len(properties.v) : MetaSchemaValid(properties.v[i][2])
        /\ ~Defined(required) \/ (IsArr(required) /\ UniqueStrings(required.v))
        /\ \/ ~Defined(items)
           \/ IsArr(items) /\ \A i \in 1..Len(items.v) : MetaSchemaValid(items.v[i])
           \/ ~IsArr(items) /\ MetaSchemaValid(items)
        /\ ~Defined(additional) \/ MetaSchemaValid(additional)
        /\ \A kw \in {"minimum", "maximum", "exclusiveMinimum", "exclusiveMaximum"} :
             IsNumberOrAbsent(Get(s, kw))
        /\ \/ ~Defined(Get(s, "multipleOf"))
           \/ IsNum(Get(s, "multipleOf")) /\ Get(s, "multipleOf").v > 0
        /\ \A kw \in {"minLength", "maxLength", "minItems", "maxItems",
                      "minProperties", "maxProperties"} : IsNatural(Get(s, kw))
        /\ \A kw \in {"title", "description", "format", "$ref", "$id"} :
             IsStringOrAbsent(Get(s, kw))
        /\ \/ ~Defined(Get(s, "pattern"))
           \/ IsStr(Get(s, "pattern")) /\ RegExpValid(Get(s, "pattern"))
        /\ ~Defined(Get(s, "enum")) \/ IsArr(Get(s, "enum"))

\* ajv.compile(schema) throws: with strict off, when the schema does not meet
\* the meta-schema
ajvCompileThrows(schema) == ~MetaSchemaValid(schema)

\* a validation that warnings fail too
validateJsonSchema_warningsCount(schema) ==
  IF ~IsObjectLike(schema)
  THEN [valid |-> FALSE, errors |-> <<"Schema must be an object">>, warnings |-> <<>>]
  ELSE
    LET rootWarning ==
          IF /\ ~Truthy(Get(schema, "type"))
             /\ ~Truthy(Get(schema, "$ref"))
             /\ ~Truthy(Get(schema, "allOf"))
             /\ ~Truthy(Get(schema, "anyOf"))
             /\ ~Truthy(Get(schema, "oneOf"))
          THEN <<"root type is recommended">>
          ELSE <<>>
        compileError == IF ajvCompileThrows(schema) THEN <<"AJV compile error">> ELSE <<>>
    IN  CHOOSE result \in
          {IF s.threw
           THEN [valid |-> FALSE, errors |-> <<"validation raised an error">>,
                 warnings |-> <<>>]
           ELSE [valid |-> Len(s.errors \o compileError) = 0 /\ Len(s.warnings \o rootWarning) = 0,
                 errors |-> s.errors \o compileError,
                 warnings |-> s.warnings \o rootWarning] :
           s \in {validateSchemaStructure(schema, "root")}} : TRUE

\* validateJsonSchema(schema)
validateJsonSchema(schema) ==
  IF ~IsObjectLike(schema)
  THEN [valid |-> FALSE, errors |-> <<"Schema must be an object">>, warnings |-> <<>>]
  ELSE
    LET rootWarning ==
          IF /\ ~Truthy(Get(schema, "type"))
             /\ ~Truthy(Get(schema, "$ref"))
             /\ ~Truthy(Get(schema, "allOf"))
             /\ ~Truthy(Get(schema, "anyOf"))
             /\ ~Truthy(Get(schema, "oneOf"))
          THEN <<"root type is recommended">>
          ELSE <<>>
        compileError == IF ajvCompileThrows(schema) THEN <<"AJV compile error">> ELSE <<>>
    IN  CHOOSE result \in
          {IF s.threw
           THEN [valid |-> FALSE, errors |-> <<"validation raised an error">>,
                 warnings |-> <<>>]
           ELSE [valid |-> Len(s.errors \o compileError) = 0,
                 errors |-> s.errors \o compileError,
                 warnings |-> s.warnings \o rootWarning] :
           s \in {validateSchemaStructure(schema, "root")}} : TRUE

\* getDefaultSchemaForType(type)
getDefaultSchemaForType(type) ==
  LET baseSchema == <<"type", JStr(type)>>
  IN  CASE type = "string" -> JObj(<<baseSchema, <<"minLength", JNum(0)>>, <<"maxLength", JNum(100)>> >>)
        [] type = "number" -> JObj(<<baseSchema, <<"minimum", JNum(0)>> >>)
        [] type = "integer" -> JObj(<<baseSchema, <<"minimum", JNum(0)>> >>)
        [] type = "boolean" -> JObj(<<baseSchema>>)
        [] type = "array" ->
             JObj(<<baseSchema, <<"items", JObj(<< <<"type", JStr("string")>> >>)>>,
                    <<"minItems", JNum(0)>> >>)
        [] type = "object" ->
             JObj(<<baseSchema, <<"properties", JObj(<<>>)>>,
                    <<"additionalProperties", JBool(FALSE)>> >>)
        [] OTHER -> JObj(<<baseSchema>>)

(***************************************************************************)
(* Locations in the tree                                                   *)
(***************************************************************************)
RECURSIVE GetIn(_, _)
\* the node reached from x through the fields of path
GetIn(x, path) == IF path = <<>> THEN x ELSE GetIn(Get(x, Head(path)), Tail(path))

RECURSIVE SetIn(_, _, _)
\* x with the node at path replaced by val (the path exists)
SetIn(x, path, val) ==
  IF path = <<>> THEN val
  ELSE Set(x, Head(path), SetIn(Get(x, Head(path)), Tail(path), val))

RECURSIVE RawPath(_)
\* the fields leading to the property at loc, a sequence of property keys
RawPath(loc) == IF loc = <<>> THEN <<>> ELSE <<"properties", Head(loc)>> \o RawPath(Tail(loc))

IsPrefix(p, q) == Len(p) <= Len(q) /\ SubSeq(q, 1, Len(p)) = p

Front(s) == SubSeq(s, 1, Len(s) - 1)
Last(s) == s[Len(s)]

\* getPropertyPath(key, parentPath)
getPropertyPath(key, parentPath) == IF parentPath # "" THEN parentPath \o "." \o key ELSE key

RECURSIVE JoinPath(_)
\* the path string the templates build for a location: its keys joined by "."
JoinPath(loc) ==
  IF loc = <<>> THEN "" ELSE getPropertyPath(Last(loc), JoinPath(Front(loc)))

RECURSIVE PropLocsFrom(_, _, _)
\* the locations of the properties of schema and, to the given depth, of its
\* object-typed properties
PropLocsFrom(schema, loc, depth) ==
  IF depth = 0 \/ ~IsObj(Get(schema, "properties")) THEN {}
  ELSE LET es == Get(schema, "properties").v
       IN  UNION {{loc \o <<es[i][1]>>}
                  \cup (IF TypeIs(es[i][2], "object")
                        THEN PropLocsFrom(es[i][2], loc \o <<es[i][1]>>, depth - 1)
                        ELSE {}) : i \in 1..Len(es)}

(***************************************************************************)
(* Visual tree editor: SchemaVisualEditor.vue and its revision with drag    *)
(* modes                                                                   *)
(***************************************************************************)
NoData == [k |-> "null", v |-> [key |-> "", schema |-> Undefined, parentPath |-> ""]]
Data(key, schema, parentPath) ==
  [k |-> "data", v |-> [key |-> key, schema |-> schema, parentPath |-> parentPath]]

NoPlaceholder == [k |-> "null", v |-> [position |-> "", targetKey |-> "", parentPath |-> ""]]
Placeholder(position, targetKey, parentPath) ==
  [k |-> "placeholder",
   v |-> [position |-> position, targetKey |-> targetKey, parentPath |-> parentPath]]

\* Object.keys(x).length
ObjectKeysLength(x) == IF x.k \in {"obj", "arr", "str"} THEN Len(x.v) ELSE 0

\* watch(() => props.schema): the local copy taken from the schema prop
watchSchema(newSchema) ==
  IF Truthy(newSchema) /\ ObjectKeysLength(newSchema) > 0
  THEN DeepCopy(newSchema)
  ELSE getDefaultSchemaForType("object")

\* a || b
Or(a, b) == IF Truthy(a) THEN a ELSE b

RECURSIVE generateSampleFromSchema(_)
\* generateSampleFromSchema(schema)
generateSampleFromSchema(schema) ==
  LET type       == Get(schema, "type")
      default    == Get(schema, "default")
      properties == Get(schema, "properties")
      entries    == IF IsStr(properties)
                    THEN [i \in 1..Len(properties.v) |-> <<ToString(i - 1), JStr("")>>]
                    ELSE Entries(properties)
  IN  IF ~Truthy(schema) \/ ~IsObjectLike(schema) THEN JNull
      ELSE CASE type = JStr("string") ->
                  Or(Or(default, Get(schema, "example")), JStr("example string"))
             [] type \in {JStr("number"), JStr("integer")} ->
                  Or(Or(default, Get(schema, "example")), JNum(42))
             [] type = JStr("boolean") -> IF Defined(default) THEN default ELSE JBool(TRUE)
             [] type = JStr("array") ->
                  IF Truthy(Get(schema, "items"))
                  THEN JArr(<<generateSampleFromSchema(Get(schema, "items"))>>)
                  ELSE JArr(<<>>)
             [] type = JStr("object") ->
                  IF Truthy(properties)
                  THEN FromEntries([i \in 1..Len(entries) |->
                                      <<entries[i][1], generateSampleFromSchema(entries[i][2])>>],
                                   JObj(<<>>))
                  ELSE JObj(<<>>)
             [] OTHER -> JNull

\* the key taken without looking for a free one
ProbeKey_noProbe(properties, key, sep, counter) == key

RECURSIVE ProbeKey(_, _, _, _)
\* the while loop of addObjectProperty and addPropertyToTarget
ProbeKey(properties, key, sep, counter) ==
  LET newKey == IF counter = 0 THEN key ELSE key \o sep \o ToString(counter)
  IN  IF Truthy(Get(properties, newKey))
      THEN ProbeKey(properties, key, sep, counter + 1)
      ELSE newKey

\* an outcome of an operation on the local tree: the tree it leaves, the
\* values it emitted and whether it ended in an exception
Outcome(tree, emitted, threw) == [tree |-> tree, emitted |-> emitted, threw |-> threw]

\* emitUpdate()
emitUpdate(tree) == CHOOSE out \in {Outcome(t, <<DeepCopy(t)>>, FALSE) : t \in {tree}} : TRUE

\* schema.properties once "if (!schema.properties) schema.properties = {}" ran
PropertiesOrEmpty(schema) ==
  IF Truthy(Get(schema, "properties")) THEN Get(schema, "properties") ELSE JObj(<<>>)

\* Array.prototype.join(',') on the strings of the elements
RECURSIVE StringOf(_)
RECURSIVE JoinItems(_, _)
JoinItems(a, first) ==
  IF a = <<>> THEN ""
  ELSE (IF first THEN "" ELSE ",")
       \o (IF a[1].k \in {"null", "undefined"} THEN "" ELSE StringOf(a[1]))
       \o JoinItems(Tail(a), FALSE)

\* String(x)
StringOf(x) ==
  CASE x.k = "str" -> x.v
    [] x.k = "num" -> ToString(x.v)
    [] x.k = "bool" -> IF x.v THEN "true" ELSE "false"
    [] x.k = "null" -> "null"
    [] x.k = "undefined" -> "undefined"
    [] x.k = "nan" -> "NaN"
    [] x.k = "inf" -> "Infinity"
    [] x.k = "arr" -> JoinItems(x.v, TRUE)
    [] OTHER -> "[object Object]"

\* Number(x) of updateSchemaType: an array or an object goes through its string
NumberOf(x) ==
  CHOOSE n \in {ToNumber(y) : y \in {IF IsObjectLike(x) THEN JStr(StringOf(x)) ELSE x}} : TRUE

\* the default of updateSchemaType, adjusted to the new type
AdjustedDefault(type, default) ==
  CASE type = "string" -> JStr(StringOf(default))
    [] type \in {"number", "integer"} -> NumberOf(default)
    [] type = "boolean" -> JBool(Truthy(default))
    [] type = "array" -> IF IsArr(default) THEN default ELSE JArr(<<>>)
    [] type = "object" ->
         IF default.k \in {"obj", "arr", "null"} THEN default ELSE JObj(<<>>)
    [] OTHER -> Undefined

\* field set on the node when the value is truthy
Carried(newSchema, schema, field) ==
  CHOOSE n \in {IF Truthy(v) THEN Set(base, field, v) ELSE base :
                base \in {newSchema}, v \in {Get(schema, field)}} : TRUE

\* the node updateSchemaType(type) makes of schema
updateSchemaType(schema, type) ==
  CHOOSE n \in
    {IF Defined(default) /\ Defined(adjusted) THEN Set(carried, "default", adjusted)
     ELSE carried :
     carried \in {Carried(Carried(getDefaultSchemaForType(type), schema, "title"),
                          schema, "description")},
     default \in {Get(schema, "default")},
     adjusted \in {AdjustedDefault(type, Get(schema, "default"))}} : TRUE

\* getDefaultSchemaForType(type) of the object sub-editor
getDefaultSchemaForType_local(type) ==
  LET baseSchema == <<"type", JStr(type)>>
  IN  CASE type = "array" ->
             JObj(<<baseSchema, <<"items", JObj(<< <<"type", JStr("string")>> >>)>> >>)
        [] type = "object" ->
             JObj(<<baseSchema, <<"properties", JObj(<<>>)>>, <<"required", JArr(<<>>)>> >>)
        [] OTHER -> JObj(<<baseSchema>>)

\* the type select of a property row: the mounted editor assigns the default
\* schema, the object sub-editor keeps title and description
propertyTypeSelect(which, propSchema, type) ==
  IF which = "visual" THEN getDefaultSchemaForType(type)
  ELSE Carried(Carried(getDefaultSchemaForType_local(type), propSchema, "title"),
            propSchema, "description")

\* updateField(field, value) of a sub-editor: an empty value deletes the field
updateField(schema, field, value) ==
  IF value.k \in {"null", "undefined"} \/ value = JStr("")
  THEN Delete(schema, field)
  ELSE Set(schema, field, value)

\* addObjectProperty(schema), schema the node at path
addObjectProperty(tree, path) ==
  LET schema     == GetIn(tree, path)
      properties == PropertiesOrEmpty(schema)
      newKey     == ProbeKey(properties, "newProperty", "", 0)
  IN  IF ~IsObj(properties) THEN Outcome(tree, <<>>, TRUE)
      ELSE emitUpdate(SetIn(tree, path,
             Set(schema, "properties",
                 Set(properties, newKey, getDefaultSchemaForType("string")))))

\* schema.required with key spliced out
SpliceRequired(schema, key) ==
  LET required == Get(schema, "required")
      index    == IndexOf(required.v, JStr(key))
  IN  IF Truthy(required) /\ IsArr(required) /\ index > 0
      THEN Set(schema, "required", JArr(RemoveAt(required.v, index)))
      ELSE schema

\* removeObjectProperty(schema, key)
removeObjectProperty(tree, path, key) ==
  LET schema == GetIn(tree, path)
  IN  IF Truthy(Get(schema, "properties"))
      THEN emitUpdate(SetIn(tree, path,
             SpliceRequired(Set(schema, "properties", Delete(Get(schema, "properties"), key)),
                            key)))
      ELSE Outcome(tree, <<>>, FALSE)

renameObjectProperty_overwrite(tree, path, oldKey, newKey) ==
  LET schema     == GetIn(tree, path)
      properties == Get(schema, "properties")
      required   == Get(schema, "required")
      index      == IndexOf(required.v, JStr(oldKey))
      moved      == Delete(Set(properties, newKey, Get(properties, oldKey)), oldKey)
      renamed    == Set(schema, "properties", moved)
  IN  IF ~Truthy(properties) \/ newKey = "" \/ newKey = oldKey
      THEN Outcome(tree, <<>>, FALSE)
      ELSE emitUpdate(SetIn(tree, path,
             IF Truthy(required) /\ IsArr(required) /\ index > 0
             THEN Set(renamed, "required", JArr([required.v EXCEPT ![index] = JStr(newKey)]))
             ELSE renamed))

\* renameObjectProperty(schema, oldKey, newKey)
renameObjectProperty(tree, path, oldKey, newKey) ==
  LET schema     == GetIn(tree, path)
      properties == Get(schema, "properties")
      required   == Get(schema, "required")
      index      == IndexOf(required.v, JStr(oldKey))
      moved      == Delete(Set(properties, newKey, Get(properties, oldKey)), oldKey)
      renamed    == Set(schema, "properties", moved)
  IN  IF ~Truthy(properties) \/ newKey = "" \/ newKey = oldKey
      THEN Outcome(tree, <<>>, FALSE)
      ELSE IF Truthy(Get(properties, newKey))
      THEN Outcome(tree, <<>>, FALSE)
      ELSE emitUpdate(SetIn(tree, path,
             IF Truthy(required) /\ IsArr(required) /\ index > 0
             THEN Set(renamed, "required", JArr([required.v EXCEPT ![index] = JStr(newKey)]))
             ELSE renamed))

\* togglePropertyRequired(schema, key)
togglePropertyRequired(tree, path, key) ==
  LET schema   == GetIn(tree, path)
      required == IF Truthy(Get(schema, "required")) THEN Get(schema, "required") ELSE JArr(<<>>)
      index    == IndexOf(required.v, JStr(key))
  IN  IF ~IsArr(required) THEN Outcome(tree, <<>>, TRUE)
      ELSE emitUpdate(SetIn(tree, path,
             Set(schema, "required",
                 IF index > 0 THEN JArr(RemoveAt(required.v, index))
                 ELSE JArr(Append(required.v, JStr(key))))))

\* the node a sub-editor received, once an operation wrote into the copy
\* newSchema = { ...localSchema.value }: the spread copies the node's own
\* fields, so the object or array the node holds under slot is the one the
\* copy holds, and what the operation wrote into it is in the received node
Shared(schema, newSchema, slot) ==
  IF Truthy(Get(schema, slot)) THEN Set(schema, slot, Get(newSchema, slot)) ELSE schema

\* one operation of the object or the array sub-editor on the node schema it
\* received: the node it emits, if any, and the received node afterwards
subEditor(op, schema, key, value) ==
  LET None      == [emitted |-> <<>>, received |-> schema]
      Fresh(n)  == [emitted |-> <<n>>, received |-> schema]
      In1(n, a) == [emitted |-> <<n>>, received |-> Shared(schema, n, a)]
      In2(n)    == [emitted |-> <<n>>,
                    received |-> Shared(Shared(schema, n, "properties"), n, "required")]
      Done(out, how) == IF out.emitted = <<>> THEN None
                        ELSE IF how = "both" THEN In2(out.tree) ELSE In1(out.tree, how)
      properties == PropertiesOrEmpty(schema)
      items      == IF Truthy(Get(schema, "items")) THEN Get(schema, "items")
                    ELSE getDefaultSchemaForType("string")
  IN  CASE op = "updateField" -> Fresh(updateField(schema, key, value))
        [] op = "addObjectProperty" ->
             In1(Set(schema, "properties",
                     Set(properties, ProbeKey(properties, "newProperty", "", 0),
                         getDefaultSchemaForType_local("string"))), "properties")
        [] op = "removeObjectProperty" -> Done(removeObjectProperty(schema, <<>>, key), "both")
        [] op = "renameObjectProperty" ->
             Done(renameObjectProperty(schema, <<>>, key, value.v), "both")
        [] op = "updatePropertySchema" ->
             In1(Set(schema, "properties", Set(properties, key, value)), "properties")
        [] op = "togglePropertyRequired" ->
             Done(togglePropertyRequired(schema, <<>>, key), "required")
        [] op = "updateItemsField" ->
             In1(Set(schema, "items", updateField(items, key, value)), "items")
        [] op = "updateItemsType" -> Fresh(Set(schema, "items", getDefaultSchemaForType(value.v)))
        [] OTHER -> None

canDropToTarget_noCycleCheck(sourceKey, targetKey, targetSchema, data) ==
  /\ sourceKey # targetKey
  /\ TypeIs(targetSchema, "object")
  /\ ~(/\ data.k = "data"
       /\ Truthy(Get(targetSchema, "properties"))
       /\ Truthy(Get(Get(targetSchema, "properties"), data.v.key)))
  /\ Len(Split(targetKey)) < 10

canDropToTarget_noNameCheck(sourceKey, targetKey, targetSchema, data) ==
  /\ sourceKey # targetKey
  /\ ~StartsWith(targetKey, sourceKey \o ".")
  /\ TypeIs(targetSchema, "object")
  /\ Len(Split(targetKey)) < 10

\* canDropToTarget(sourceKey, targetKey, targetSchema), data being draggedItemData
canDropToTarget(sourceKey, targetKey, targetSchema, data) ==
  /\ sourceKey # targetKey
  /\ ~StartsWith(targetKey, sourceKey \o ".")
  /\ TypeIs(targetSchema, "object")
  /\ ~(/\ data.k = "data"
       /\ Truthy(Get(targetSchema, "properties"))
       /\ Truthy(Get(Get(targetSchema, "properties"), data.v.key)))
  /\ Len(Split(targetKey)) < 10

\* the reason handleDrop appends to its refusal message
RefusalReason(sourceKey, targetPath, targetSchema, data) ==
  IF sourceKey = targetPath THEN "self"
  ELSE IF StartsWith(targetPath, sourceKey \o ".") THEN "descendant"
  ELSE IF ~TypeIs(targetSchema, "object") THEN "not an object"
  ELSE IF /\ Truthy(Get(targetSchema, "properties"))
          /\ Truthy(Get(Get(targetSchema, "properties"), data.v.key)) THEN "name exists"
  ELSE IF Len(Split(targetPath)) >= 10 THEN "too deep"
  ELSE "unknown"

RECURSIVE validateSchemaIntegrity(_)
RECURSIVE IntegrityOfProperties(_)
RECURSIVE IntegrityOfRequired(_, _)

\* the forEach over Object.entries(schema.properties), as the findings of its
\* steps; reading .type of null is a TypeError
IntegrityOfProperties(es) ==
  IF es = <<>> THEN <<>>
  ELSE IF es[1][2].k \in {"null", "undefined"} THEN <<[NoFindings EXCEPT !.threw = TRUE]>>
  ELSE <<Err(Trim(es[1][1]) = "", "empty property name"),
         Err(~Truthy(Get(es[1][2], "type")), es[1][1] \o ": missing type"),
         IF TypeIs(es[1][2], "object") THEN validateSchemaIntegrity(es[1][2]) ELSE NoFindings>>
       \o IntegrityOfProperties(Tail(es))

IntegrityOfRequired(req, schema) ==
  IF req = <<>> THEN NoFindings
  ELSE Then(Err(\/ ~Truthy(Get(schema, "properties"))
                \/ ~IsStr(req[1])
                \/ ~Truthy(Get(Get(schema, "properties"), req[1].v)),
                "required names a missing property"),
            IntegrityOfRequired(Tail(req), schema))

\* validateSchemaIntegrity(schema): isValid is errors = <<>> and not threw
validateSchemaIntegrity(schema) ==
  Combine(
    <<Err(~Truthy(Get(schema, "type")), "missing type")>>
    \o (IF TypeIs(schema, "object") /\ Truthy(Get(schema, "properties"))
        THEN IntegrityOfProperties(Entries(Get(schema, "properties")))
        ELSE <<>>)
    \o <<IF /\ TypeIs(schema, "object")
            /\ Truthy(Get(schema, "required"))
            /\ IsArr(Get(schema, "required"))
         THEN IntegrityOfRequired(Get(schema, "required").v, schema)
         ELSE NoFindings,
         IF TypeIs(schema, "array")
         THEN IF ~Truthy(Get(schema, "items")) THEN Err(TRUE, "array without items")
              ELSE validateSchemaIntegrity(Get(schema, "items"))
         ELSE NoFindings>>)

RECURSIVE ResolveParts(_, _, _)
\* the walk of getSchemaByPath: the fields leading to the node, or <<"?">>
\* when a segment names no property
ResolveParts(current, parts, acc) ==
  IF parts = <<>> THEN acc
  ELSE IF /\ Truthy(Get(current, "properties"))
          /\ Truthy(Get(Get(current, "properties"), Head(parts)))
       THEN ResolveParts(Get(Get(current, "properties"), Head(parts)), Tail(parts),
                         acc \o <<"properties", Head(parts)>>)
       ELSE <<"?">>

NotFound == <<"?">>

\* getSchemaByPath(path), as the fields leading to the node it returns
getSchemaByPath(tree, path) == ResolveParts(tree, Split(path), <<>>)

\* removePropertyFromPath(key, parentPath): the tree left, the fields leading
\* to the node deleted (NotFound if none) and whether it raised an exception
removePropertyFromPath(tree, key, parentPath) ==
  LET parentAt == IF parentPath = "" THEN <<>> ELSE getSchemaByPath(tree, parentPath)
      parent   == GetIn(tree, parentAt)
      required == Get(parent, "required")
  IN  IF parentAt = NotFound \/ ~Truthy(Get(parent, "properties"))
      THEN [tree |-> tree, removed |-> NotFound, threw |-> FALSE]
      ELSE IF Truthy(required) /\ ~IsArr(required)
      THEN [tree |-> SetIn(tree, parentAt,
                           Set(parent, "properties", Delete(Get(parent, "properties"), key))),
            removed |-> parentAt \o <<"properties", key>>, threw |-> TRUE]
      ELSE [tree |-> SetIn(tree, parentAt,
                           SpliceRequired(Set(parent, "properties",
                                              Delete(Get(parent, "properties"), key)), key)),
            removed |-> IF HasKey(Get(parent, "properties"), key)
                        THEN parentAt \o <<"properties", key>> ELSE NotFound,
            threw |-> FALSE]

\* addPropertyToTarget(key, schema, targetPath, targetSchema): targetSchema is
\* the node that was at targetAt when the drop began; once that node has left
\* the tree (removed names it or a node above it) writing to it changes nothing
addPropertyToTarget(tree, key, schema, targetAt, removed) ==
  LET target     == GetIn(tree, targetAt)
      properties == PropertiesOrEmpty(target)
      newKey     == ProbeKey(properties, key, "_", 0)
  IN  IF removed # NotFound /\ IsPrefix(removed, targetAt)
      THEN [tree |-> tree, threw |-> FALSE]
      ELSE IF ~IsObj(properties) THEN [tree |-> tree, threw |-> TRUE]
      ELSE [tree |-> SetIn(tree, targetAt,
                           Set(target, "properties", Set(properties, newKey, schema))),
            threw |-> FALSE]

\* performCrossLevelDrag(dragData, targetPath, targetSchema)
performCrossLevelDrag(tree, data, targetAt) ==
  CHOOSE out \in
    {IF removal.threw THEN Outcome(backupSchema, <<>>, TRUE)
     ELSE CHOOSE added \in
            {IF addition.threw THEN Outcome(backupSchema, <<>>, TRUE)
             ELSE CHOOSE validated \in
                    {IF validation.threw \/ validation.errors # <<>>
                     THEN Outcome(backupSchema, <<>>, TRUE)
                     ELSE emitUpdate(addition.tree) :
                     validation \in {validateSchemaIntegrity(addition.tree)}} : TRUE :
             addition \in {addPropertyToTarget(removal.tree, data.key, data.schema,
                                               targetAt, removal.removed)}} : TRUE :
     backupSchema \in {DeepCopy(tree)},
     removal \in {removePropertyFromPath(tree, data.key, data.parentPath)}} : TRUE

RECURSIVE addDropZones(_, _, _, _)
\* addDropZones(schema, path) of updateDropZones
addDropZones(schema, path, item, data) ==
  IF ~Truthy(Get(schema, "properties")) THEN {}
  ELSE LET es == Entries(Get(schema, "properties"))
       IN  UNION {LET fullPath == getPropertyPath(es[i][1], path)
                  IN  (IF /\ TypeIs(es[i][2], "object")
                          /\ canDropToTarget(item, fullPath, es[i][2], data)
                       THEN {fullPath} ELSE {})
                      \cup (IF /\ TypeIs(es[i][2], "object")
                               /\ Truthy(Get(es[i][2], "properties"))
                            THEN addDropZones(es[i][2], fullPath, item, data)
                            ELSE {}) : i \in 1..Len(es)}

\* a computation of the nest targets that offers the root object too
updateDropZones_withRoot(tree, item, data) == addDropZones(tree, "", item, data) \cup {""}

\* updateDropZones(), for a drag in progress
updateDropZones(tree, item, data) == addDropZones(tree, "", item, data)

\* updateSortDropZones(), for a drag in progress
updateSortDropZones(tree, item, data) ==
  LET parentAt == IF data.parentPath = "" THEN <<>> ELSE getSchemaByPath(tree, data.parentPath)
      parent   == GetIn(tree, parentAt)
      keys     == Keys(Get(parent, "properties"))
  IN  IF parentAt = NotFound \/ ~Truthy(Get(parent, "properties")) THEN {}
      ELSE {getPropertyPath(keys[i], data.parentPath) : i \in 1..Len(keys)} \ {item}

\* performSortDrag(dragData, targetKey, targetParentPath), placeholder being
\* dragPlaceholder
performSortDrag(tree, data, targetKey, targetParentPath, placeholder) ==
  LET parentAt    == IF targetParentPath = "" THEN <<>> ELSE getSchemaByPath(tree, targetParentPath)
      parent      == GetIn(tree, parentAt)
      position    == placeholder.v.position
      entries     == Entries(Get(parent, "properties"))
      sourceIndex == EntryIndex(entries, data.key)
      targetIndex == EntryIndex(entries, targetKey)
      removed     == RemoveAt(entries, sourceIndex)
      insertIndex ==
        IF position = "before"
        THEN (IF sourceIndex < targetIndex THEN targetIndex - 1 ELSE targetIndex)
        ELSE (IF sourceIndex < targetIndex THEN targetIndex ELSE targetIndex + 1)
      clamped     == IF insertIndex < 1 THEN 1
                     ELSE IF insertIndex > Len(removed) + 1 THEN Len(removed) + 1
                     ELSE insertIndex
      reordered   == InsertAt(removed, clamped, entries[sourceIndex])
  IN  IF data.parentPath # targetParentPath THEN Outcome(tree, <<>>, TRUE)
      ELSE IF parentAt = NotFound \/ ~Truthy(Get(parent, "properties")) THEN Outcome(tree, <<>>, TRUE)
      ELSE IF placeholder.k = "null" \/ position \notin {"before", "after"} THEN Outcome(tree, <<>>, TRUE)
      ELSE IF sourceIndex = 0 \/ targetIndex = 0 THEN Outcome(tree, <<>>, TRUE)
      ELSE IF sourceIndex = targetIndex THEN Outcome(tree, <<>>, FALSE)
      ELSE emitUpdate(SetIn(tree, parentAt,
                            Set(parent, "properties", FromEntries(reordered, JObj(<<>>)))))

(***************************************************************************)
(* Top-level editor (JsonSchemaEditor): raw text, parsed object, validation *)
(***************************************************************************)
\* the built-in schema text (its two descriptions are transliterated)
defaultSchema ==
  "{\n  \"type\": \"object\",\n  \"properties\": {\n    \"name\": {\n      \"type\": \"string\",\n      \"description\": \"user name\"\n    },\n    \"age\": {\n      \"type\": \"integer\",\n      \"minimum\": 0,\n      \"description\": \"user age\"\n    }\n  },\n  \"required\": [\"name\"]\n}"

\* a parse failure that clears the object
parseJsonSchema_clearOnFailure(text, object) ==
  CHOOSE result \in
    {IF parsed.ok
     THEN CHOOSE assigned \in
            {[schemaObject |-> parsed.val, isValidSchema |-> validation.valid,
              validationErrors |-> validation.errors,
              validationWarnings |-> validation.warnings, assigned |-> TRUE] :
             validation \in {validateJsonSchema(parsed.val)}} : TRUE
     ELSE [schemaObject |-> JObj(<<>>), isValidSchema |-> FALSE,
           validationErrors |-> <<"JSON format error">>,
           validationWarnings |-> <<>>, assigned |-> TRUE] :
     parsed \in {JSONparse(text)}} : TRUE

\* parseJsonSchema() on the text: the object, validity, errors and warnings it
\* leaves, and whether schemaObject was assigned
parseJsonSchema(text, object) ==
  CHOOSE result \in
    {IF parsed.ok
     THEN CHOOSE assigned \in
            {[schemaObject |-> parsed.val, isValidSchema |-> validation.valid,
              validationErrors |-> validation.errors,
              validationWarnings |-> validation.warnings, assigned |-> TRUE] :
             validation \in {validateJsonSchema(parsed.val)}} : TRUE
     ELSE [schemaObject |-> object, isValidSchema |-> FALSE,
           validationErrors |-> <<"JSON format error">>,
           validationWarnings |-> <<>>, assigned |-> FALSE] :
     parsed \in {JSONparse(text)}} : TRUE


(***************************************************************************)
(* Bounds and inputs                                                       *)
(***************************************************************************)
\* removals, renames, required toggles and drops in a run
MaxEdits == 1

\* deliveries of update:value followed after one edit event
MaxRounds == 3

\* properties an object may hold when a property is added to it
MaxProps == 3

\* height of a drop target, in pointer steps
ElementHeight == 4

\* an object with a dotted key: a required property under it, an empty object
\* and a required number beside it
DottedText ==
  "{\"type\":\"object\",\"properties\":{\"a.b\":{\"type\":\"object\",\"properties\":{\"x\":{\"type\":\"string\"}},\"required\":[\"x\"]},\"c\":{\"type\":\"object\"},\"y\":{\"type\":\"number\"}},\"required\":[\"y\"]}"

\* required names a property that does not exist
DanglingRequiredText ==
  "{\"type\":\"object\",\"properties\":{\"p\":{\"type\":\"string\"},\"q\":{\"type\":\"object\"}},\"required\":[\"zz\"]}"

\* a target that already holds the name of a sibling; an inverted bound
CollisionText ==
  "{\"type\":\"object\",\"properties\":{\"k\":{\"type\":\"integer\",\"minimum\":5,\"maximum\":1},\"o\":{\"type\":\"object\",\"properties\":{\"k\":{\"type\":\"boolean\"},\"m\":{\"type\":\"object\"}}}}}"

\* a target whose path has ten segments
DeepText ==
  "{\"type\":\"object\",\"properties\":{\"d.1.2.3.4.5.6.7.8.9\":{\"type\":\"object\"},\"k\":{\"type\":\"string\"}}}"

\* a property whose own properties reach ten levels below the root, beside an
\* empty object
ChainText ==
  "{\"type\":\"object\",\"properties\":{\"o\":{\"type\":\"object\",\"properties\":{\"a\":{\"type\":\"object\",\"properties\":{\"a\":{\"type\":\"object\",\"properties\":{\"a\":{\"type\":\"object\",\"properties\":{\"a\":{\"type\":\"object\",\"properties\":{\"a\":{\"type\":\"object\",\"properties\":{\"a\":{\"type\":\"object\",\"properties\":{\"a\":{\"type\":\"object\",\"properties\":{\"a\":{\"type\":\"object\",\"properties\":{\"a\":{\"type\":\"object\"}}}}}}}}}}}}}}}}}}},\"c\":{\"type\":\"object\"}}}"

\* a string p beside an empty object q; the same with p a number; the same
\* without p
PlainText ==
  "{\"type\":\"object\",\"properties\":{\"p\":{\"type\":\"string\"},\"q\":{\"type\":\"object\"}}}"
RetypedText ==
  "{\"type\":\"object\",\"properties\":{\"p\":{\"type\":\"number\"},\"q\":{\"type\":\"object\"}}}"
WithoutText ==
  "{\"type\":\"object\",\"properties\":{\"q\":{\"type\":\"object\"},\"r\":{\"type\":\"string\"}}}"

\* integer-like property names, given out of ascending order, beside an object
NumberedText ==
  "{\"type\":\"object\",\"properties\":{\"b\":{\"type\":\"object\"},\"10\":{\"type\":\"string\"},\"2\":{\"type\":\"string\"}}}"

\* a default beyond the range of a double
OverflowText == "{\"type\":\"number\",\"default\":1e999}"

\* properties is not an object
BrokenPropertiesText == "{\"type\":\"object\",\"properties\":\"p\",\"required\":[\"a\"]}"

\* a bound only the compile step rejects
NegativeLengthText == "{\"type\":\"string\",\"maxLength\":-1}"

\* an object type without properties
BareObjectText == "{\"type\":\"object\"}"

\* the texts typed, pasted or imported
LoadTexts ==
  {defaultSchema, "{}", "", "{\"type\": ", "5", "[]", DottedText, DanglingRequiredText,
   CollisionText, BrokenPropertiesText, NegativeLengthText, BareObjectText, OverflowText}


\* a schema node of the given type with the given fields
Node(type, fields) == JObj(<< <<"type", JStr(type)>> >> \o fields)

\* nodes with an inverted bound, a negative bound or an empty enum
InvertedNodes ==
  {Node("number", << <<"minimum", JNum(10)>>, <<"maximum", JNum(5)>> >>),
   Node("integer", << <<"multipleOf", JNum(0)>> >>),
   Node("string", << <<"minLength", JNum(5)>>, <<"maxLength", JNum(1)>> >>),
   Node("string", << <<"minLength", JNum(-1)>> >>),
   Node("array", << <<"minItems", JNum(3)>>, <<"maxItems", JNum(1)>> >>),
   Node("array", << <<"minItems", JNum(-1)>> >>),
   Node("object", << <<"minProperties", JNum(2)>>, <<"maxProperties", JNum(1)>> >>),
   Node("object", << <<"minProperties", JNum(-1)>> >>),
   Node("string", << <<"enum", JArr(<<>>)>> >>)}

\* object nodes whose required names a property they do not have
DanglingNodes ==
  {Node("object", << <<"properties", JObj(<< <<"a", Node("string", <<>>)>> >>)>>,
                     <<"required", JArr(<<JStr(r)>>)>> >>) : r \in {"b", "constructor"}}

\* a node as the property p of an object, as the items of an array, and as a
\* property of an object that does not give its type
UnderProperty(n) == Node("object", << <<"properties", JObj(<< <<"p", n>> >>)>> >>)
UnderItems(n) == Node("array", << <<"items", n>> >>)
UnderUntyped(n) == JObj(<< <<"properties", JObj(<< <<"p", n>> >>)>> >>)

\* the trees that hold the node at the root, one level down and two levels down
Around(n) ==
  {n, UnderProperty(n), UnderItems(n), UnderUntyped(n),
   UnderProperty(UnderProperty(n)), UnderProperty(UnderItems(n)),
   UnderItems(UnderProperty(n)), UnderItems(UnderItems(n))}

\* the texts given to the validator
ShapeTexts ==
  {JSONstringify(t) : t \in UNION {Around(n) : n \in InvertedNodes \cup DanglingNodes}}
    \cup {"{}", DanglingRequiredText, BareObjectText}

\* titles, descriptions, defaults and bounds on the root, on properties and on
\* a property of a property
TitledText ==
  "{\"type\":\"object\",\"title\":\"T\",\"description\":\"D\",\"minProperties\":1,\"properties\":{\"s\":{\"type\":\"string\",\"title\":\"S\",\"description\":\"E\",\"default\":\"abc\",\"minLength\":2},\"o\":{\"type\":\"object\",\"title\":\"O\",\"properties\":{\"n\":{\"type\":\"number\",\"title\":\"N\",\"default\":5,\"minimum\":1}}}}}"

\* roots of other types with a default
TitledStringText == "{\"type\":\"string\",\"title\":\"T\",\"default\":\"abc\",\"minLength\":2}"
NumericStringText == "{\"type\":\"string\",\"description\":\"D\",\"default\":\"12\"}"
NullDefaultText == "{\"type\":\"number\",\"title\":\"T\",\"default\":null,\"minimum\":1}"
TitledArrayText ==
  "{\"type\":\"array\",\"title\":\"A\",\"default\":[1],\"items\":{\"type\":\"string\",\"title\":\"I\",\"minLength\":2}}"

\* typed leaves with and without a default and an example
SampleLeaves ==
  {Node(type, d \o e) :
     type \in {"string", "number", "integer", "boolean"},
     d \in {<<>>, << <<"default", JStr("d")>> >>, << <<"default", JStr("")>> >>,
            << <<"default", JNum(7)>> >>, << <<"default", JNum(0)>> >>,
            << <<"default", JBool(FALSE)>> >>},
     e \in {<<>>, << <<"example", JStr("e")>> >>, << <<"example", JNum(3)>> >>}}

\* the texts a sample is generated from
SampleTexts ==
  {JSONstringify(n) : n \in SampleLeaves}
    \cup {JSONstringify(UnderItems(Node("string", <<>>))),
          JSONstringify(UnderItems(Node("integer", << <<"default", JNum(0)>> >>))),
          JSONstringify(Node("array", <<>>)),
          JSONstringify(Node("object", <<>>)),
          "{\"type\":\"object\",\"properties\":{\"n\":{\"type\":\"integer\"},\"s\":{\"type\":\"string\"}}}",
          "{\"type\":\"object\",\"properties\":{\"o\":{\"type\":\"object\",\"properties\":{\"b\":{\"type\":\"boolean\"}}},\"a\":{\"type\":\"array\",\"items\":{\"type\":\"number\",\"default\":7}}}}",
          "{}", "5", "{\"type\": "}

\* the texts loaded before a type or a field is changed
ObjectDefaultText ==
  "{\"type\":\"object\",\"description\":\"D\",\"default\":{\"a\":1},\"properties\":{}}"

FieldTexts ==
  {TitledText, TitledStringText, NumericStringText, NullDefaultText, TitledArrayText,
   ObjectDefaultText}

\* the texts loaded before dragging
DragTexts == {DottedText, DanglingRequiredText, CollisionText, DeepText, NumberedText}

\* the texts loaded before editing the tree
EditTexts == {"{}", "{\"type\": ", DanglingRequiredText}

Texts == LoadTexts \cup DragTexts \cup EditTexts \cup ShapeTexts \cup FieldTexts \cup SampleTexts

\* names typed into a property's name field
NewNames == {"", "n"}

(***************************************************************************)
(* State                                                                   *)
(***************************************************************************)
VARIABLES
  jsonSchemaText,      \* the raw text
  schemaObject,        \* the object handed to the visual editor
  isValidSchema, validationErrors, validationWarnings,
  hasAutoSaved,
  savedSchemaText,     \* jsonSchemaText of the persisted record
  component,           \* the visual editor mounted: "visual" or "modes"
  restoreTimer,        \* the timer onMounted set for restoreSavedData is pending
  clipboard,           \* the text on the clipboard
  localSchema,         \* the visual editor's tree
  draggedItem, dragOverItem, draggedItemData, dropZones, dragError,
  dragMode, dragPlaceholder, sortDropZones,
  edits,               \* removals, renames, required toggles and drops so far
  lastOp               \* the last operation and what it emitted

topVars == <<jsonSchemaText, schemaObject, isValidSchema, validationErrors,
             validationWarnings, hasAutoSaved, savedSchemaText>>
dragVars == <<draggedItem, dragOverItem, draggedItemData, dropZones, dragError,
              dragMode, dragPlaceholder, sortDropZones>>
vars == <<topVars, component, restoreTimer, clipboard, localSchema, dragVars, edits, lastOp>>

\* the record of an operation: its name, the location, key and argument it
\* was given, what it emitted and, for an operation of a sub-editor, the node
\* the sub-editor was given as the operation leaves it
Op(name, at, key, arg, out) ==
  [op |-> name, at |-> at, key |-> key, arg |-> arg,
   emitted |-> out.emitted, threw |-> out.threw,
   received |-> IF "received" \in DOMAIN out THEN out.received ELSE Undefined]

\* the depth to which the mounted editor shows (and lets one drag) properties
maxDepth == 10
ShownDepth == IF component = "visual" THEN 2 ELSE maxDepth

\* the properties shown: those of an object-typed root and, below, of
\* object-typed properties
ShownLocs ==
  IF TypeIs(localSchema, "object") THEN PropLocsFrom(localSchema, <<>>, ShownDepth) ELSE {}

\* the object nodes that show an "add property" button
AddPaths ==
  (IF TypeIs(localSchema, "object") THEN {<<>>} ELSE {})
  \cup {RawPath(loc) : loc \in {l \in ShownLocs : /\ Len(l) < ShownDepth
                                                  /\ TypeIs(GetIn(localSchema, RawPath(l)), "object")}}
  \cup (IF TypeIs(localSchema, "array") /\ TypeIs(Get(localSchema, "items"), "object")
        THEN {<<"items">>} ELSE {})

(***************************************************************************)
(* Synchronization                                                         *)
(***************************************************************************)
\* the watch saving every text
AfterText_saveAlways(newText, object, local) ==
  CHOOSE result \in
    {[text |-> newText, object |-> p.schemaObject, valid |-> p.isValidSchema,
      errors |-> p.validationErrors, warnings |-> p.validationWarnings,
      saved |-> newText, auto |-> TRUE,
      local |-> IF p.assigned /\ (IsObjectLike(p.schemaObject) \/ p.schemaObject # object)
                THEN watchSchema(p.schemaObject) ELSE local] :
     p \in {parseJsonSchema(newText, object)}} : TRUE

\* watch(jsonSchemaText) on a new text, then the visual editor's watch on the
\* schema prop: the values every variable of the two components ends with
AfterText(newText, object, local) ==
  LET save == Trim(newText) # "" /\ newText # defaultSchema
  IN  CHOOSE result \in
        {[text |-> newText, object |-> p.schemaObject, valid |-> p.isValidSchema,
          errors |-> p.validationErrors, warnings |-> p.validationWarnings,
          saved |-> IF save THEN newText ELSE savedSchemaText,
          auto |-> IF save THEN TRUE ELSE hasAutoSaved,
          local |-> IF p.assigned /\ (IsObjectLike(p.schemaObject) \/ p.schemaObject # object)
                    THEN watchSchema(p.schemaObject) ELSE local] :
         p \in {parseJsonSchema(newText, object)}} : TRUE

updateSchemaFromVisual_keepInvalidText(newSchema) ==
  CHOOSE result \in
    {IF newText # jsonSchemaText
     THEN AfterText(newText, newSchema, localSchema)
     ELSE [text |-> jsonSchemaText, object |-> newSchema, valid |-> isValidSchema,
           errors |-> validationErrors, warnings |-> validationWarnings,
           saved |-> savedSchemaText, auto |-> hasAutoSaved,
           local |-> watchSchema(newSchema)] :
     newText \in {IF JSONparse(jsonSchemaText).ok THEN JSONstringify2(newSchema)
                  ELSE jsonSchemaText}} : TRUE

\* updateSchemaFromVisual(newSchema) and the watchers it sets off
updateSchemaFromVisual(newSchema) ==
  CHOOSE result \in
    {IF newText # jsonSchemaText
     THEN AfterText(newText, newSchema, localSchema)
     ELSE [text |-> jsonSchemaText, object |-> newSchema, valid |-> isValidSchema,
           errors |-> validationErrors, warnings |-> validationWarnings,
           saved |-> savedSchemaText, auto |-> hasAutoSaved,
           local |-> watchSchema(newSchema)] :
     newText \in {JSONstringify2(newSchema)}} : TRUE

\* the state the two components end with after an operation of the visual
\* editor: nothing emitted leaves the text side alone
AfterVisual(out) ==
  IF out.emitted = <<>>
  THEN [text |-> jsonSchemaText, object |-> schemaObject, valid |-> isValidSchema,
        errors |-> validationErrors, warnings |-> validationWarnings,
        saved |-> savedSchemaText, auto |-> hasAutoSaved, local |-> out.tree]
  ELSE updateSchemaFromVisual(out.emitted[1])

\* the two components and the code editor's content, between the deliveries
\* of one edit event: quiet is FALSE once the deliveries exceed MaxRounds
Editors(text, object, valid, local, content) ==
  [text |-> text, object |-> object, valid |-> valid, local |-> local,
   content |-> content, rounds |-> 0, quiet |-> TRUE]

\* an editor whose setValue gives back the value with a line end added
updateEditorValue_lineEndAdded(content, newValue) ==
  IF content # newValue THEN <<newValue \o "\n">> ELSE <<>>

\* updateEditorValue(newValue) of MonacoEditor.vue on an editor holding
\* content: the value it sets, <<>> when it sets none
updateEditorValue(content, newValue) ==
  IF content # newValue THEN <<newValue>> ELSE <<>>

RECURSIVE valueUpdated(_, _, _)
\* update:value with the text t reaches v-model: jsonSchemaText is assigned,
\* and only a changed text runs watch(jsonSchemaText), the visual editor's
\* watch on its prop (which emits nothing) and the code editor's watch on its
\* value, whose setValue raises onDidChangeModelContent and so update:value
\* again
valueUpdated(s, t, fuel) ==
  IF t = s.text THEN s
  ELSE IF fuel = 0 THEN [s EXCEPT !.quiet = FALSE]
  ELSE LET r   == AfterText(t, s.object, s.local)
           set == updateEditorValue(s.content, t)
           s1  == [s EXCEPT !.text = t, !.object = r.object, !.valid = r.valid,
                            !.local = r.local, !.rounds = @ + 1]
       IN  IF set = <<>> THEN s1
           ELSE valueUpdated([s1 EXCEPT !.content = set[1]], set[1], fuel - 1)

\* onDidChangeModelContent after the user changed the content to t
onDidChangeModelContent(s, t, fuel) == valueUpdated([s EXCEPT !.content = t], t, fuel)

\* update:schema with newSchema reaches updateSchemaFromVisual: the object and
\* the text are assigned, then the watchers run
schemaUpdated(s, newSchema, fuel) ==
  IF JSONstringify2(newSchema) = s.text
  THEN [s EXCEPT !.object = newSchema, !.local = watchSchema(newSchema)]
  ELSE valueUpdated([s EXCEPT !.object = newSchema], JSONstringify2(newSchema), fuel)

Commit(r) ==
  /\ jsonSchemaText' = r.text
  /\ schemaObject' = r.object
  /\ isValidSchema' = r.valid
  /\ validationErrors' = r.errors
  /\ validationWarnings' = r.warnings
  /\ savedSchemaText' = r.saved
  /\ hasAutoSaved' = r.auto
  /\ localSchema' = r.local

NoOutcome == Outcome(localSchema, <<>>, FALSE)

\* what useLocalStorage reads at setup: no record (the default record, whose
\* jsonSchemaText is empty) or the text an earlier session saved
StoredTexts == {"", TitledStringText}

\* the records another tab saves
OtherTabTexts == {NumericStringText, NullDefaultText}

(***************************************************************************)
(* Initial state: the editor mounted on the built-in text                  *)
(***************************************************************************)
Init ==
  /\ component \in {"visual", "modes"}
  /\ LET p == parseJsonSchema(defaultSchema, JObj(<<>>))
     IN  /\ schemaObject = p.schemaObject
         /\ isValidSchema = p.isValidSchema
         /\ validationErrors = p.validationErrors
         /\ validationWarnings = p.validationWarnings
         /\ localSchema = watchSchema(p.schemaObject)
  /\ jsonSchemaText = defaultSchema
  /\ hasAutoSaved = FALSE
  /\ savedSchemaText \in StoredTexts
  /\ restoreTimer = TRUE
  /\ clipboard = ""
  /\ draggedItem = JNull
  /\ dragOverItem = JNull
  /\ draggedItemData = NoData
  /\ dropZones = {}
  /\ dragError = JNull
  /\ dragMode = "null"
  /\ dragPlaceholder = NoPlaceholder
  /\ sortDropZones = {}
  /\ edits = 0
  /\ lastOp = [op |-> "mounted", at |-> <<>>, key |-> "", arg |-> "",
               emitted |-> <<>>, threw |-> FALSE, received |-> Undefined]

(***************************************************************************)
(* Operations                                                              *)
(***************************************************************************)
\* the text replaced by typing, paste, import or restore
textChange(t) ==
  /\ t # jsonSchemaText
  /\ \E r \in {AfterText(t, schemaObject, localSchema)} : Commit(r)
  /\ edits' = edits
  /\ lastOp' = Op("textChange", <<>>, "", t, NoOutcome)
  /\ UNCHANGED <<component, restoreTimer, clipboard, dragVars>>

\* generateSampleData(): the sample of the schema parsed from the text goes to
\* the clipboard as text; a text that does not parse leaves the clipboard alone
generateSampleData ==
  /\ \E p \in {JSONparse(jsonSchemaText)} :
       /\ clipboard' = IF p.ok THEN JSONstringify2(generateSampleFromSchema(p.val))
                       ELSE clipboard
       /\ lastOp' = Op("generateSampleData", <<>>, "", jsonSchemaText,
                       Outcome(localSchema, <<>>, ~p.ok))
  /\ UNCHANGED <<topVars, component, restoreTimer, localSchema, dragVars, edits>>

\* the timer of onMounted fires: restoreSavedData() assigns the saved text when
\* hasSavedData(), and the watch on the text runs if the text changed
restoreSavedData ==
  /\ restoreTimer
  /\ restoreTimer' = FALSE
  /\ \E r \in {IF Trim(savedSchemaText) = "" \/ savedSchemaText = jsonSchemaText
                THEN [text |-> jsonSchemaText, object |-> schemaObject, valid |-> isValidSchema,
                      errors |-> validationErrors, warnings |-> validationWarnings,
                      saved |-> savedSchemaText, auto |-> hasAutoSaved, local |-> localSchema]
                ELSE AfterText(savedSchemaText, schemaObject, localSchema)} :
       Commit([r EXCEPT !.auto = IF Trim(savedSchemaText) = "" THEN hasAutoSaved ELSE TRUE])
  /\ lastOp' = Op("restoreSavedData", <<>>, "", savedSchemaText, NoOutcome)
  /\ UNCHANGED <<component, clipboard, dragVars, edits>>

\* the storage event of a record another tab wrote under the editor's key:
\* handleStorageChange assigns it to storedValue; newValue is <<>> for a removed
\* record and <<text>> for a record with that jsonSchemaText
handleStorageChange(newValue) ==
  /\ savedSchemaText' = IF newValue # <<>> THEN newValue[1] ELSE savedSchemaText
  /\ lastOp' = Op("handleStorageChange", <<>>, "", IF newValue # <<>> THEN newValue[1] ELSE "",
                  NoOutcome)
  /\ UNCHANGED <<jsonSchemaText, schemaObject, isValidSchema, validationErrors,
                 validationWarnings, hasAutoSaved, component, restoreTimer, clipboard,
                 localSchema, dragVars, edits>>

\* an operation of the visual editor with outcome out; cost is what it takes
\* from the run's allowance of edits
Visual(name, at, key, arg, outcome, cost) ==
  /\ edits + cost <= MaxEdits
  /\ \E out \in {outcome} :
       /\ \E r \in {AfterVisual(out)} : Commit(r)
       /\ lastOp' = Op(name, at, key, arg, out)
  /\ edits' = edits + cost
  /\ UNCHANGED <<component, restoreTimer, clipboard, dragVars>>

\* the handlers of the mounted editor's own property rows
AddProperty(path) ==
  /\ component = "visual"
  /\ path \in AddPaths
  /\ ObjectKeysLength(Get(GetIn(localSchema, path), "properties")) < MaxProps
  /\ Visual("addObjectProperty", path, "", "", addObjectProperty(localSchema, path), 0)

RemoveProperty(loc) ==
  /\ component = "visual"
  /\ loc \in ShownLocs
  /\ Visual("removeObjectProperty", RawPath(Front(loc)), Last(loc), "",
            removeObjectProperty(localSchema, RawPath(Front(loc)), Last(loc)), 1)

RenameProperty(loc, newKey) ==
  /\ component = "visual"
  /\ loc \in ShownLocs
  /\ Visual("renameObjectProperty", RawPath(Front(loc)), Last(loc), newKey,
            renameObjectProperty(localSchema, RawPath(Front(loc)), Last(loc), newKey), 1)

ToggleRequired(loc) ==
  /\ loc \in ShownLocs
  /\ Len(loc) = 1 \/ component = "modes"
  /\ Visual("togglePropertyRequired", RawPath(Front(loc)), Last(loc), "",
            togglePropertyRequired(localSchema, RawPath(Front(loc)), Last(loc)), 1)

\* the root's type select: updateSchemaType(type) of the mounted editor, or of
\* the property editor its revision mounts on the tree
ChangeType(type) ==
  /\ type \in SupportedTypeSet
  /\ \E newSchema \in {updateSchemaType(localSchema, type)} :
       Visual("updateSchemaType", <<>>, "", type, emitUpdate(newSchema), 1)

\* the type select in the row of the property at loc
ChangePropertyType(loc, type) ==
  /\ loc \in ShownLocs
  /\ type \in SupportedTypeSet
  /\ \E new \in {propertyTypeSelect(component, GetIn(localSchema, RawPath(loc)), type)} :
       \E tree \in {SetIn(localSchema, RawPath(loc), new)} :
         Visual("propertyTypeSelect", RawPath(loc), Last(loc), type, emitUpdate(tree), 1)

\* updateArrayItemType(schema, type) on a root of type array; updateItemsType
\* of the array sub-editor assigns the same default schema
ChangeItemsType(type) ==
  /\ type \in SupportedTypeSet
  /\ TypeIs(localSchema, "array")
  /\ \E tree \in {Set(localSchema, "items", getDefaultSchemaForType(type))} :
       Visual("updateArrayItemType", <<"items">>, "", type, emitUpdate(tree), 1)

\* the fields shown for a node and the values their inputs give: a text input
\* gives a string, a number input a number or null, a switch a boolean
FieldEdits(schema) ==
  {<<"title", JStr("")>>, <<"title", JStr("t")>>, <<"description", JStr("")>>}
    \cup (IF TypeIs(schema, "string")
          THEN {<<"default", JStr("")>>, <<"minLength", JNull>>, <<"minLength", JNum(0)>>}
          ELSE {})
    \cup (IF TypeIs(schema, "number") \/ TypeIs(schema, "integer")
          THEN {<<"default", JNull>>, <<"default", JNum(0)>>, <<"minimum", JNull>>}
          ELSE {})
    \cup (IF TypeIs(schema, "boolean") THEN {<<"default", JBool(FALSE)>>} ELSE {})
    \cup (IF TypeIs(schema, "object")
          THEN {<<"minProperties", JNull>>, <<"additionalProperties", JBool(FALSE)>>}
          ELSE {})

\* a field of the root edited: updateField(field, value) of the mounted editor
\* assigns the value, the sub-editor mounted by its revision deletes an empty one
UpdateField(field, value) ==
  /\ <<field, value>> \in FieldEdits(localSchema)
  /\ \E tree \in {IF component = "visual" THEN Set(localSchema, field, value)
                   ELSE updateField(localSchema, field, value)} :
       \E arg \in {JSONstringify(value)} :
         Visual("updateField", <<>>, field, arg, emitUpdate(tree), 1)

\* a field in the row of the property at loc edited: the value is assigned
UpdatePropertyField(loc, field, value) ==
  /\ loc \in ShownLocs
  /\ <<field, value>> \in FieldEdits(GetIn(localSchema, RawPath(loc)))
  /\ \E tree \in {SetIn(localSchema, RawPath(loc),
                         Set(GetIn(localSchema, RawPath(loc)), field, value))} :
       \E arg \in {JSONstringify(value)} :
         Visual("updatePropertyField", RawPath(loc), field, arg, emitUpdate(tree), 1)

\* the operations the sub-editor of a node offers, as <<op, key, value>>
SubEdits(schema) ==
  LET keys == {Keys(Get(schema, "properties"))[i] :
                 i \in 1..Len(Keys(Get(schema, "properties")))}
  IN  (IF TypeIs(schema, "object")
       THEN {<<"updateField", "title", JStr("")>>, <<"updateField", "title", JStr("t")>>,
             <<"addObjectProperty", "", Undefined>>}
              \cup {<<"removeObjectProperty", k, Undefined>> : k \in keys}
              \cup {<<"renameObjectProperty", k, JStr(n)>> : k \in keys, n \in keys \cup {"n"}}
              \cup {<<"togglePropertyRequired", k, Undefined>> : k \in keys}
              \cup {<<"updatePropertySchema", k, Set(Get(Get(schema, "properties"), k),
                                                     "title", JStr("t"))>> : k \in keys}
       ELSE {})
      \cup
      (IF TypeIs(schema, "array")
       THEN {<<"updateField", "minItems", JNum(1)>>, <<"updateItemsField", "minLength", JNull>>,
             <<"updateItemsField", "title", JStr("t")>>, <<"updateItemsType", "", JStr("number")>>}
       ELSE {})

\* canNest of the sub-editor mounted with the given depth: its "add property"
\* button is enabled
canNest(depth) == depth < maxDepth

\* an operation of the sub-editor of the node at path, in the editor that
\* mounts sub-editors: the node it emits replaces the node at path on the way
\* up (updatePropertySchema of each parent), updateSchema assigns the tree
\* and emits its copy
SubEditor(path, op, key, value) ==
  /\ component = "modes"
  /\ path \in {<<>>} \cup {RawPath(loc) : loc \in ShownLocs}
  /\ op = "addObjectProperty" => canNest(Len(path) \div 2)
  /\ <<op, key, value>> \in SubEdits(GetIn(localSchema, path))
  /\ \E sub \in {subEditor(op, GetIn(localSchema, path), key, value)} :
       \E out \in {IF sub.emitted = <<>>
                    THEN [tree |-> localSchema, emitted |-> <<>>, threw |-> FALSE,
                          received |-> sub.received]
                    ELSE [tree |-> SetIn(localSchema, path, sub.emitted[1]),
                          emitted |-> <<DeepCopy(SetIn(localSchema, path, sub.emitted[1]))>>,
                          threw |-> FALSE, received |-> sub.received]} :
         \E arg \in {IF Defined(value) THEN JSONstringify(value) ELSE ""} :
           Visual("sub:" \o op, path, key, arg, out, 1)

(***************************************************************************)
(* Drag and drop. The handlers are taken as operations that may be called  *)
(* in any order while a drag is in progress.                               *)
(***************************************************************************)
\* handleDragStart(e, key, schema, parentPath) on the property at loc
handleDragStart(loc) ==
  /\ loc \in ShownLocs
  /\ draggedItem = JNull
  /\ edits < MaxEdits
  /\ LET key        == Last(loc)
         parentPath == JoinPath(Front(loc))
         fullPath   == getPropertyPath(key, parentPath)
     IN  \E data \in {Data(key, DeepCopy(GetIn(localSchema, RawPath(loc))), parentPath)} :
           /\ draggedItem' = JStr(fullPath)
           /\ draggedItemData' = data
           /\ dropZones' = updateDropZones(localSchema, fullPath, data)
           /\ sortDropZones' = IF component = "modes"
                               THEN updateSortDropZones(localSchema, fullPath, data.v)
                               ELSE sortDropZones
  /\ lastOp' = Op("handleDragStart", loc, Last(loc), "", NoOutcome)
  /\ UNCHANGED <<topVars, component, restoreTimer, clipboard, localSchema, dragOverItem, dragError, dragMode,
                 dragPlaceholder, edits>>

\* a drag state that keeps the placeholder
ClearDrag_keepPlaceholder ==
  /\ draggedItem' = JNull
  /\ dragOverItem' = JNull
  /\ draggedItemData' = NoData
  /\ dropZones' = {}
  /\ sortDropZones' = IF component = "modes" THEN {} ELSE sortDropZones
  /\ dragMode' = IF component = "modes" THEN "null" ELSE dragMode
  /\ dragPlaceholder' = dragPlaceholder

\* the drag state handleDragEnd leaves (the revision with drag modes assigns
\* null to dragMode and dragPlaceholder once more 50 ms later)
ClearDrag ==
  /\ draggedItem' = JNull
  /\ dragOverItem' = JNull
  /\ draggedItemData' = NoData
  /\ dropZones' = {}
  /\ sortDropZones' = IF component = "modes" THEN {} ELSE sortDropZones
  /\ dragMode' = IF component = "modes" THEN "null" ELSE dragMode
  /\ dragPlaceholder' = IF component = "modes" THEN NoPlaceholder ELSE dragPlaceholder

\* handleDragEnd(): the drag is cancelled or the browser ends it
handleDragEnd ==
  /\ draggedItem # JNull
  /\ ClearDrag
  /\ lastOp' = Op("handleDragEnd", <<>>, "", "", NoOutcome)
  /\ UNCHANGED <<topVars, component, restoreTimer, clipboard, localSchema, dragError, edits>>

\* handleDragEnter(e, key, parentPath) on the property at loc
handleDragEnter(loc) ==
  /\ loc \in ShownLocs
  /\ draggedItem # JNull
  /\ LET fullPath == getPropertyPath(Last(loc), JoinPath(Front(loc)))
     IN  dragOverItem' =
           IF /\ Truthy(draggedItem) /\ draggedItem.v # fullPath
              /\ \/ fullPath \in dropZones
                 \/ component = "modes" /\ fullPath \in sortDropZones
           THEN JStr(fullPath) ELSE dragOverItem
  /\ lastOp' = Op("handleDragEnter", loc, Last(loc), "", NoOutcome)
  /\ UNCHANGED <<topVars, component, restoreTimer, clipboard, localSchema, draggedItem, draggedItemData,
                 dropZones, dragError, dragMode, dragPlaceholder, sortDropZones, edits>>

\* handleDragLeave(e) on the element the handler is bound to
handleDragLeave ==
  /\ draggedItem # JNull
  /\ dragOverItem' = JNull
  /\ dragMode' = IF component = "modes" THEN "null" ELSE dragMode
  /\ dragPlaceholder' = IF component = "modes" THEN NoPlaceholder ELSE dragPlaceholder
  /\ lastOp' = Op("handleDragLeave", <<>>, "", "", NoOutcome)
  /\ UNCHANGED <<topVars, component, restoreTimer, clipboard, localSchema, draggedItem, draggedItemData,
                 dropZones, dragError, sortDropZones, edits>>

\* handleDragOver(e, key, parentPath) with the pointer relativeY below the top
\* of the target (the revision with drag modes; the mounted editor's handler
\* sets the drop effect only)
handleDragOver(loc, relativeY) ==
  /\ component = "modes"
  /\ loc \in ShownLocs
  /\ draggedItem # JNull /\ draggedItemData # NoData
  /\ LET key        == Last(loc)
         parentPath == JoinPath(Front(loc))
         fullPath   == getPropertyPath(key, parentPath)
     IN  IF fullPath \in sortDropZones
         THEN /\ dragMode' = "sort"
              /\ dragPlaceholder' =
                   Placeholder(IF 2 * relativeY < ElementHeight THEN "before" ELSE "after",
                               key, parentPath)
         ELSE IF /\ fullPath \in dropZones
                 /\ 4 * relativeY > ElementHeight
                 /\ 4 * relativeY < 3 * ElementHeight
         THEN /\ dragMode' = "nest"
              /\ dragPlaceholder' = Placeholder("inside", key, parentPath)
         ELSE /\ dragMode' = "null"
              /\ dragPlaceholder' = NoPlaceholder
  /\ lastOp' = Op("handleDragOver", loc, Last(loc), ToString(relativeY), NoOutcome)
  /\ UNCHANGED <<topVars, component, restoreTimer, clipboard, localSchema, draggedItem, dragOverItem,
                 draggedItemData, dropZones, dragError, sortDropZones, edits>>

\* showError / showDragMessage timing out
dragMessageTimeout ==
  /\ dragError # JNull
  /\ dragError' = JNull
  /\ lastOp' = Op("dragMessageTimeout", <<>>, "", "", NoOutcome)
  /\ UNCHANGED <<topVars, component, restoreTimer, clipboard, localSchema, draggedItem, dragOverItem,
                 draggedItemData, dropZones, dragMode, dragPlaceholder, sortDropZones, edits>>

\* a drop of the given kind ("ignored", "refused", "nest" or "sort") that
\* ends in out and shows message
FinishDrop(loc, kind, out, message) ==
  /\ \E r \in {AfterVisual(out)} : Commit(r)
  /\ dragError' = message
  /\ ClearDrag
  /\ edits' = edits + 1
  /\ lastOp' = Op("handleDrop", loc, Last(loc), kind, out)
  /\ UNCHANGED <<component, restoreTimer, clipboard>>

\* the result of a drop: its kind, the outcome on the tree and the message
\* shown
Dropped(kind, out, message) == [kind |-> kind, out |-> out, message |-> message]

\* handleDrop(e, targetKey, targetSchema, parentPath) of SchemaVisualEditor.vue
\* on the property at loc
handleDropVisual(loc) ==
  LET sourceKey    == draggedItem
      targetKey    == Last(loc)
      parentPath   == JoinPath(Front(loc))
      targetPath   == getPropertyPath(targetKey, parentPath)
      targetSchema == GetIn(localSchema, RawPath(loc))
  IN  IF ~Truthy(sourceKey) \/ draggedItemData = NoData \/ sourceKey.v = targetPath
      THEN Dropped("ignored", NoOutcome, dragError)
      ELSE IF ~canDropToTarget(sourceKey.v, targetPath, targetSchema, draggedItemData)
      THEN Dropped("refused", NoOutcome,
                   JStr("refused: " \o RefusalReason(sourceKey.v, targetPath,
                                                     targetSchema, draggedItemData)))
      ELSE CHOOSE d \in
             {Dropped("nest", out, JStr(IF out.threw THEN "failed" ELSE "moved")) :
              out \in {performCrossLevelDrag(localSchema, draggedItemData.v, RawPath(loc))}} :
             TRUE

\* handleDrop(e, targetKey, targetSchema, parentPath) of the revision with
\* drag modes
handleDropModes(loc) ==
  LET sourceKey    == draggedItem
      targetKey    == Last(loc)
      parentPath   == JoinPath(Front(loc))
      targetPath   == getPropertyPath(targetKey, parentPath)
      targetSchema == GetIn(localSchema, RawPath(loc))
  IN  IF ~Truthy(sourceKey) \/ draggedItemData = NoData \/ dragMode = "null"
      THEN Dropped("ignored", NoOutcome, dragError)
      ELSE IF dragMode = "sort"
      THEN CHOOSE d \in
             {Dropped("sort", out, JStr(IF out.threw THEN "failed" ELSE "sorted")) :
              out \in {performSortDrag(localSchema, draggedItemData.v, targetKey, parentPath,
                                       dragPlaceholder)}} : TRUE
      ELSE IF ~canDropToTarget(sourceKey.v, targetPath, targetSchema, draggedItemData)
      THEN Dropped("refused", NoOutcome,
                   JStr("refused: " \o RefusalReason(sourceKey.v, targetPath,
                                                     targetSchema, draggedItemData)))
      ELSE CHOOSE d \in
             {Dropped("nest", out, JStr(IF out.threw THEN "failed" ELSE "moved")) :
              out \in {performCrossLevelDrag(localSchema, draggedItemData.v, RawPath(loc))}} :
             TRUE

\* a drop on the property at loc while a drag is in progress
handleDrop(loc) ==
  /\ loc \in ShownLocs
  /\ draggedItem # JNull
  /\ edits < MaxEdits
  /\ \E d \in {IF component = "visual" THEN handleDropVisual(loc) ELSE handleDropModes(loc)} :
       FinishDrop(loc, d.kind, d.out, d.message)

(***************************************************************************)
(* Specifications                                                          *)
(***************************************************************************)
\* the names offered to a rename of the property at loc: the typed ones, its
\* own and those of its siblings
RenameTo(loc) ==
  NewNames \cup {m[Len(m)] : m \in {l \in ShownLocs : Front(l) = Front(loc)}}

Edit ==
  \/ \E path \in AddPaths : AddProperty(path)
  \/ \E loc \in ShownLocs : RemoveProperty(loc)
  \/ \E loc \in ShownLocs : \E newKey \in RenameTo(loc) : RenameProperty(loc, newKey)
  \/ \E loc \in ShownLocs : ToggleRequired(loc)

Drag ==
  \/ \E loc \in ShownLocs : handleDragStart(loc)
  \/ \E loc \in ShownLocs : handleDragEnter(loc)
  \/ handleDragLeave
  \/ \E loc \in ShownLocs : \E relativeY \in 0..ElementHeight : handleDragOver(loc, relativeY)
  \/ \E loc \in ShownLocs : handleDrop(loc)
  \/ handleDragEnd
  \/ dragMessageTimeout

\* a field of the forms is edited
Field ==
  \/ \E type \in SupportedTypeSet : ChangeType(type)
  \/ \E loc \in ShownLocs : \E type \in SupportedTypeSet : ChangePropertyType(loc, type)
  \/ \E type \in SupportedTypeSet : ChangeItemsType(type)
  \/ \E e \in FieldEdits(localSchema) : UpdateField(e[1], e[2])
  \/ \E loc \in ShownLocs :
       \E e \in FieldEdits(GetIn(localSchema, RawPath(loc))) : UpdatePropertyField(loc, e[1], e[2])

Storage ==
  \/ restoreSavedData
  \/ \E newValue \in {<<>>} \cup {<<t>> : t \in OtherTabTexts} : handleStorageChange(newValue)

Sub ==
  \E path \in {<<>>} \cup {RawPath(loc) : loc \in ShownLocs} :
    \E e \in SubEdits(GetIn(localSchema, path)) : SubEditor(path, e[1], e[2], e[3])

Next ==
  \/ \E t \in Texts : textChange(t)
  \/ Edit
  \/ Drag
  \/ Field
  \/ Sub
  \/ Storage
  \/ generateSampleData

Spec == Init /\ [][Next]_vars

\* the text is replaced again and again
LoadNext == \E t \in LoadTexts : textChange(t)

LoadSpec == Init /\ [][LoadNext]_vars

\* texts are given to the validator one after another
ShapeNext == \E t \in ShapeTexts : textChange(t)

ShapeSpec == Init /\ [][ShapeNext]_vars

\* a text is loaded into the mounted editor, properties are added, then the
\* tree is edited
EditNext ==
  \/ lastOp.op = "mounted" /\ \E t \in EditTexts : textChange(t)
  \/ lastOp.op \in {"textChange", "addObjectProperty"} /\ \E path \in AddPaths : AddProperty(path)
  \/ \E loc \in ShownLocs : RemoveProperty(loc)
  \/ \E loc \in ShownLocs : \E newKey \in RenameTo(loc) : RenameProperty(loc, newKey)
  \/ \E loc \in ShownLocs : ToggleRequired(loc)

EditSpec == Init /\ [][EditNext]_vars

\* a text is loaded into the mounted editor, then properties are added and
\* removed
AddNext ==
  \/ lastOp.op = "mounted" /\ \E t \in EditTexts : textChange(t)
  \/ \E path \in AddPaths : AddProperty(path)
  \/ \E loc \in ShownLocs : RemoveProperty(loc)

AddSpec == Init /\ [][AddNext]_vars

\* a text is loaded into the mounted editor, then properties are dragged
DragNext ==
  \/ lastOp.op = "mounted" /\ \E t \in DragTexts : textChange(t)
  \/ Drag

DragSpec == Init /\ [][DragNext]_vars

\* a text is loaded, a property may be added, then the tree is edited (while
\* nothing is being dragged) and properties are dragged
TreeNext ==
  \/ lastOp.op = "mounted" /\ \E t \in DragTexts : textChange(t)
  \/ lastOp.op = "textChange" /\ \E path \in AddPaths : AddProperty(path)
  \/ draggedItem = JNull /\ \E loc \in ShownLocs : RemoveProperty(loc)
  \/ draggedItem = JNull /\ \E loc \in ShownLocs : \E newKey \in RenameTo(loc) :
                              RenameProperty(loc, newKey)
  \/ draggedItem = JNull /\ \E loc \in ShownLocs : ToggleRequired(loc)
  \/ Drag

TreeSpec == Init /\ [][TreeNext]_vars

\* the texts loaded before nesting deeper
DepthTexts == {ChainText, CollisionText}

\* a text is loaded, a property may be added, then a property of the two
\* upper levels is dragged and dropped in the middle of a shown property
DepthNext ==
  \/ lastOp.op = "mounted" /\ \E t \in DepthTexts : textChange(t)
  \/ lastOp.op = "textChange" /\ \E path \in AddPaths : AddProperty(path)
  \/ lastOp.op = "textChange" /\ \E loc \in ShownLocs :
       SubEditor(RawPath(loc), "addObjectProperty", "", Undefined)
  \/ \E loc \in {l \in ShownLocs : Len(l) <= 2} : handleDragStart(loc)
  \/ \E loc \in ShownLocs : handleDragOver(loc, ElementHeight \div 2)
  \/ \E loc \in ShownLocs : handleDrop(loc)

DepthSpec == Init /\ [][DepthNext]_vars

\* the texts that replace the tree
ReplaceTexts == {PlainText, RetypedText, WithoutText}

\* a text is loaded and a property is dragged; while the drag is in progress
\* the text may change (typed, pasted or imported) and the timer of onMounted
\* may fire
ReplaceNext ==
  \/ lastOp.op = "mounted" /\ \E t \in ReplaceTexts : textChange(t)
  \/ draggedItem # JNull /\ \E t \in ReplaceTexts : textChange(t)
  \/ draggedItem # JNull /\ restoreSavedData
  \/ \E loc \in ShownLocs : handleDragStart(loc)
  \/ \E loc \in ShownLocs : handleDragOver(loc, ElementHeight \div 2)
  \/ \E loc \in ShownLocs : handleDrop(loc)

ReplaceSpec == Init /\ [][ReplaceNext]_vars

\* a text is loaded, then a type or a field is changed
FieldNext ==
  \/ lastOp.op = "mounted" /\ \E t \in FieldTexts : textChange(t)
  \/ Field

FieldSpec == Init /\ [][FieldNext]_vars

\* the text typed, the restore on load and records written by another tab
StorageTexts == {defaultSchema, "", " ", "{\"type\": ", TitledStringText, NumericStringText}
StorageNext ==
  \/ \E t \in StorageTexts : textChange(t)
  \/ Storage
StorageSpec == Init /\ [][StorageNext]_vars

\* a schema typed, then its sample generated
SampleNext ==
  \/ lastOp.op = "mounted" /\ \E t \in SampleTexts : textChange(t)
  \/ generateSampleData
SampleSpec == Init /\ [][SampleNext]_vars

\* a schema loaded, then operations of the sub-editors
SubTexts == {TitledText, TitledArrayText, DottedText, CollisionText, NumberedText}
SubNext ==
  \/ lastOp.op = "mounted" /\ \E t \in SubTexts : textChange(t)
  \/ Sub
SubSpec == Init /\ [][SubNext]_vars

(***************************************************************************)
(* Properties of loading a text                                            *)
(***************************************************************************)
\* C3: when the text changes to a value that is not valid JSON, schemaObject
\* is what it was before the change, isValidSchema is false, validationErrors
\* is not empty and validationWarnings is empty
ParseFailureKeepsObject ==
  [][lastOp'.op = "textChange" /\ ~JSONparse(jsonSchemaText').ok =>
       /\ schemaObject' = schemaObject
       /\ isValidSchema' = FALSE
       /\ validationErrors' # <<>>
       /\ validationWarnings' = <<>>]_vars

\* an unparsable text was typed over a schema other than the built-in one
ParseFailureSeen ==
  /\ lastOp.op = "textChange"
  /\ lastOp.arg = "{\"type\": "
  /\ ~isValidSchema
  /\ schemaObject = JSONparse(DottedText).val

\* C4 as stated: when the text changes to one that parses as a JSON object,
\* the visual editor's localSchema equals that object
TextReplacesTreeForEveryObject ==
  [][/\ lastOp'.op = "textChange"
     /\ JSONparse(jsonSchemaText').ok
     /\ IsObj(JSONparse(jsonSchemaText').val)
     => localSchema' = JSONparse(jsonSchemaText').val]_vars

\* C8: after a text that parses, isValidSchema (the valid validateJsonSchema
\* returned) is true exactly when validationErrors (its errors) is empty,
\* whatever its warnings
ValidIffNoErrors ==
  lastOp.op = "textChange" /\ JSONparse(jsonSchemaText).ok =>
    /\ isValidSchema <=> validationErrors = <<>>
    /\ isValidSchema = validateJsonSchema(schemaObject).valid
    /\ validationErrors = validateJsonSchema(schemaObject).errors

\* a schema was found valid with a warning
ValidWithWarnings ==
  /\ lastOp.op = "textChange"
  /\ JSONparse(jsonSchemaText).ok
  /\ isValidSchema
  /\ validationErrors = <<>>
  /\ validationWarnings # <<>>

(***************************************************************************)
(* Properties of editing the tree                                          *)
(***************************************************************************)
\* the operations of the visual editor that change the tree
TreeOps ==
  {"addObjectProperty", "removeObjectProperty", "renameObjectProperty",
   "togglePropertyRequired", "handleDrop"}

\* C5: after every operation of the visual editor that emits an update, the
\* text is the 2-space serialization of the emitted tree, whatever the text
\* was before, a text that did not parse included
EmittedTreeOverwritesText ==
  [][lastOp'.op \in TreeOps /\ lastOp'.emitted # <<>> =>
       /\ jsonSchemaText' = JSONstringify2(lastOp'.emitted[1])
       /\ schemaObject' = lastOp'.emitted[1]]_vars

\* a property was added to the built-in tree: properties are added right
\* after a text is loaded, and the only text that leaves the built-in tree in
\* place is the one that does not parse
EmittedOverUnparsableText ==
  /\ lastOp.op = "addObjectProperty"
  /\ lastOp.emitted # <<>>
  /\ Keys(Get(localSchema, "properties")) = <<"name", "age", "newProperty">>
  /\ jsonSchemaText = JSONstringify2(lastOp.emitted[1])

ProbeName(n) == IF n = 0 THEN "newProperty" ELSE "newProperty" \o ToString(n)

DraggedFrom ==
  IF draggedItem = JNull \/ draggedItemData = NoData THEN {}
  ELSE {l \in ShownLocs : /\ JoinPath(l) = draggedItem.v
                          /\ Last(l) = draggedItemData.v.key
                          /\ JoinPath(Front(l)) = draggedItemData.v.parentPath}

\* the properties object of the property at loc
PropertiesAt(tree, loc) == Get(GetIn(tree, RawPath(loc)), "properties")

\* a drop now is a nest-drop: the mounted editor nests on every drop, its
\* revision when the drag mode is nest
IsNestDrop ==
  /\ draggedItem # JNull
  /\ draggedItemData # NoData
  /\ component = "modes" => dragMode = "nest"

\* C1 as stated: after a nest-drop that went on to move the property, either
\* one update was emitted, the tree passes validateSchemaIntegrity, the
\* dragged property is gone from its source parent and is among the target's
\* properties, or the tree is as it was and nothing was emitted
NestDropAllOrNothing ==
  [][lastOp'.op = "handleDrop" /\ lastOp'.arg = "nest" =>
       \/ /\ Len(lastOp'.emitted) = 1
          /\ validateSchemaIntegrity(localSchema').errors = <<>>
          /\ \A src \in DraggedFrom :
               ~HasKey(PropertiesAt(localSchema', Front(src)), Last(src))
          /\ \E i \in 1..Len(Keys(PropertiesAt(localSchema', lastOp'.at))) :
               PropertiesAt(localSchema', lastOp'.at).v[i][2] = draggedItemData.v.schema
       \/ /\ lastOp'.emitted = <<>>
          /\ localSchema' = localSchema]_vars

\* C2: a drop on the dragged property itself or on a property inside it
\* emits nothing and leaves the tree and the text as they were, and the nest
\* targets computed at drag start hold neither the dragged property nor a
\* property inside it
NoDropIntoOwnSubtree ==
  [][/\ lastOp'.op = "handleDrop" /\ (\E src \in DraggedFrom : IsPrefix(src, lastOp'.at))
        => /\ lastOp'.arg # "nest"
           /\ lastOp'.emitted = <<>>
           /\ localSchema' = localSchema
           /\ jsonSchemaText' = jsonSchemaText
     /\ lastOp'.op = "handleDragStart"
        => \A l \in ShownLocs : IsPrefix(lastOp'.at, l) => JoinPath(l) \notin dropZones']_vars

\* a drop on an object inside the dragged property was refused
DropIntoDescendantRefused ==
  /\ lastOp.op = "handleDrop"
  /\ lastOp.arg = "refused"
  /\ dragError = JStr("refused: descendant")
  /\ TypeIs(GetIn(localSchema, RawPath(lastOp.at)), "object")

\* the target of a nest-drop is another object, not inside the dragged
\* property, that has a property with the dragged key
CollidingNestDrop(loc) ==
  /\ IsNestDrop
  /\ draggedItem.v # JoinPath(loc)
  /\ ~StartsWith(JoinPath(loc), draggedItem.v \o ".")
  /\ TypeIs(GetIn(localSchema, RawPath(loc)), "object")
  /\ Len(loc) < 10
  /\ HasKey(PropertiesAt(localSchema, loc), draggedItemData.v.key)

RefusedDropChangesNothing ==
  [][/\ lastOp'.op = "handleDrop"
     /\ IsNestDrop
     /\ \/ ~TypeIs(GetIn(localSchema, RawPath(lastOp'.at)), "object")
        \/ HasKey(PropertiesAt(localSchema, lastOp'.at), draggedItemData.v.key)
        \/ Len(Split(JoinPath(lastOp'.at))) >= 10
     => /\ lastOp'.emitted = <<>>
        /\ localSchema' = localSchema
        /\ jsonSchemaText' = jsonSchemaText
        /\ dragError' # JNull]_vars

(***************************************************************************)
(* Properties of required                                                  *)
(***************************************************************************)
\* node.required as a list, empty when it is not an array
RequiredList(node) == IF IsArr(Get(node, "required")) THEN Get(node, "required").v ELSE <<>>

RECURSIVE RequiredConsistent(_)
\* in every object node under node, required is absent or a list without
\* duplicates of keys of properties
RequiredConsistent(node) ==
  /\ Defined(Get(node, "required")) =>
       /\ IsArr(Get(node, "required"))
       /\ \A i \in 1..Len(RequiredList(node)) :
            /\ IsStr(RequiredList(node)[i])
            /\ HasKey(Get(node, "properties"), RequiredList(node)[i].v)
            /\ \A j \in 1..Len(RequiredList(node)) :
                 RequiredList(node)[i] = RequiredList(node)[j] => i = j
  /\ \A i \in 1..Len(Entries(Get(node, "properties"))) :
       RequiredConsistent(Entries(Get(node, "properties"))[i][2])
  /\ IsObj(Get(node, "items")) => RequiredConsistent(Get(node, "items"))

\* C11 as stated: an operation on a tree whose required lists are consistent
\* leaves them consistent; a removal strips the key from required, a rename
\* puts the new key where the old one was in required, and a committed
\* nest-drop leaves the moved key out of the source parent's required
RequiredStaysConsistent ==
  [][lastOp'.op \in TreeOps /\ RequiredConsistent(localSchema) =>
       /\ RequiredConsistent(localSchema')
       /\ lastOp'.op = "removeObjectProperty" /\ lastOp'.emitted # <<>> =>
            LET Kept(e) == e # JStr(lastOp'.key)
            IN  RequiredList(GetIn(localSchema', lastOp'.at))
                  = SelectSeq(RequiredList(GetIn(localSchema, lastOp'.at)), Kept)
       /\ lastOp'.op = "renameObjectProperty" /\ lastOp'.emitted # <<>> =>
            LET before == RequiredList(GetIn(localSchema, lastOp'.at))
            IN  RequiredList(GetIn(localSchema', lastOp'.at))
                  = [i \in 1..Len(before) |->
                       IF before[i] = JStr(lastOp'.key) THEN JStr(lastOp'.arg) ELSE before[i]]
       /\ lastOp'.op = "handleDrop" /\ lastOp'.arg = "nest" /\ lastOp'.emitted # <<>> =>
            \A src \in DraggedFrom :
              \A i \in 1..Len(RequiredList(GetIn(localSchema', RawPath(Front(src))))) :
                RequiredList(GetIn(localSchema', RawPath(Front(src))))[i] # JStr(Last(src))]_vars

(***************************************************************************)
(* Properties of sorting                                                   *)
(***************************************************************************)
\* keys with s taken out and put back next to t
MovedNextTo(keys, s, t, position) ==
  LET NotS(k) == k # s
      others  == SelectSeq(keys, NotS)
      at      == CHOOSE i \in 1..Len(others) : others[i] = t
  IN  IF position = "before"
      THEN SubSeq(others, 1, at - 1) \o <<s>> \o SubSeq(others, at, Len(others))
      ELSE SubSeq(others, 1, at) \o <<s>> \o SubSeq(others, at + 1, Len(others))

\* the pointer is over the property at loc, in its upper half ("before") or
\* its lower half ("after")
PointerOver(loc) ==
  /\ dragPlaceholder.k # "null"
  /\ dragPlaceholder.v.position \in {"before", "after"}
  /\ dragPlaceholder.v.targetKey = Last(loc)
  /\ dragPlaceholder.v.parentPath = JoinPath(Front(loc))

\* C12 as stated: a sort-drop of s on a sibling t puts s immediately before t
\* when the pointer was in the upper half of t and immediately after it
\* otherwise, keeps the order of the other properties, the set of keys, every
\* property's value and everything else in the tree, and emits the tree; a
\* sort-drop on a property of another parent changes nothing
SortDropReorders ==
  [][lastOp'.op = "handleDrop" /\ lastOp'.arg = "sort" =>
       \A s \in DraggedFrom :
         LET t      == lastOp'.at
             parent == GetIn(localSchema, RawPath(Front(s)))
             before == PropertiesAt(localSchema, Front(s))
             after  == PropertiesAt(localSchema', Front(s))
         IN  /\ JoinPath(Front(s)) # JoinPath(Front(t)) =>
                  localSchema' = localSchema /\ lastOp'.emitted = <<>>
             /\ Front(s) = Front(t) /\ s # t /\ PointerOver(t) =>
                  /\ Keys(after) = MovedNextTo(Keys(before), Last(s), Last(t),
                                               dragPlaceholder.v.position)
                  /\ \A i \in 1..Len(Keys(before)) :
                       Get(after, Keys(before)[i]) = Get(before, Keys(before)[i])
                  /\ localSchema' = SetIn(localSchema, RawPath(Front(s)),
                                          Set(parent, "properties", after))
                  /\ lastOp'.emitted = <<localSchema'>>]_vars

(***************************************************************************)
(* Properties of the drag state                                            *)
(***************************************************************************)
\* C13 as stated: over a target with the pointer y below its top, the mode is
\* sort exactly when y is in the top or bottom quarter and the target is a
\* sort target (before in the upper half, after otherwise), nest exactly when
\* y is in the middle half and the target is a nest target, and no mode and
\* no placeholder otherwise; a drop while no mode is set changes nothing
DragOverClassifies ==
  [][/\ lastOp'.op = "handleDragOver" =>
          \A y \in 0..ElementHeight : ToString(y) = lastOp'.arg =>
            LET target   == JoinPath(lastOp'.at)
                inMiddle == 4 * y > ElementHeight /\ 4 * y < 3 * ElementHeight
            IN  /\ dragMode' = "sort" <=> ~inMiddle /\ target \in sortDropZones
                /\ dragMode' = "sort" =>
                     dragPlaceholder' =
                       Placeholder(IF 2 * y < ElementHeight THEN "before" ELSE "after",
                                   Last(lastOp'.at), JoinPath(Front(lastOp'.at)))
                /\ dragMode' = "nest" <=> inMiddle /\ target \in dropZones
                /\ dragMode' = "nest" =>
                     dragPlaceholder' =
                       Placeholder("inside", Last(lastOp'.at), JoinPath(Front(lastOp'.at)))
                /\ dragMode' \in {"sort", "nest", "null"}
                /\ dragMode' = "null" => dragPlaceholder' = NoPlaceholder
     /\ lastOp'.op = "handleDrop" /\ component = "modes" /\ dragMode = "null" =>
          /\ localSchema' = localSchema
          /\ jsonSchemaText' = jsonSchemaText
          /\ lastOp'.emitted = <<>>]_vars

Reparsed(tree) == JSONparse(JSONstringify2(emitUpdate(tree).emitted[1]))

\* C15 as stated: for every text that is a valid schema, the visual editor's
\* copy of what the text parses to, emitted, written with indentation and
\* parsed again, is what the text parsed to, the order of properties included
RoundTripStable ==
  lastOp.op = "textChange" /\ JSONparse(lastOp.arg).ok /\ isValidSchema =>
    /\ Reparsed(localSchema).ok
    /\ Reparsed(localSchema).val = JSONparse(lastOp.arg).val

(***************************************************************************)
(* Properties of the validator                                             *)
(***************************************************************************)
\* a below b, both being numbers
Below(a, b) == IsNum(a) /\ IsNum(b) /\ a.v < b.v

\* the node itself has an inverted bound, a negative bound or an empty enum
BadBounds(n) ==
  \/ /\ TypeIs(n, "number") \/ TypeIs(n, "integer")
     /\ \/ Below(Get(n, "maximum"), Get(n, "minimum"))
        \/ IsNum(Get(n, "multipleOf")) /\ Get(n, "multipleOf").v <= 0
  \/ /\ TypeIs(n, "string")
     /\ \/ Below(Get(n, "maxLength"), Get(n, "minLength"))
        \/ Below(Get(n, "minLength"), JNum(0))
  \/ /\ TypeIs(n, "array")
     /\ \/ Below(Get(n, "maxItems"), Get(n, "minItems"))
        \/ Below(Get(n, "minItems"), JNum(0))
  \/ /\ TypeIs(n, "object")
     /\ \/ Below(Get(n, "maxProperties"), Get(n, "minProperties"))
        \/ Below(Get(n, "minProperties"), JNum(0))
  \/ Get(n, "enum") = JArr(<<>>)

RECURSIVE HasBadBounds(_)
\* some node reached through properties and items has one
HasBadBounds(n) ==
  /\ IsObj(n)
  /\ \/ BadBounds(n)
     \/ \E i \in 1..Len(Keys(Get(n, "properties"))) :
          HasBadBounds(Get(n, "properties").v[i][2])
     \/ HasBadBounds(Get(n, "items"))

\* C16 as stated: a schema in which some node, reached from the root through
\* properties and items, has an inverted bound, a negative bound or an empty
\* enum is not valid and has errors
BadBoundsFound ==
  lastOp.op = "textChange" /\ JSONparse(lastOp.arg).ok /\ HasBadBounds(schemaObject) =>
    validationErrors # <<>> /\ ~isValidSchema

\* the entries of an object's required that name no key of its properties
DanglingEntries(n) ==
  IF IsArr(Get(n, "required"))
  THEN {Get(n, "required").v[i] : i \in 1..Len(Get(n, "required").v)}
         \ {JStr(Keys(Get(n, "properties"))[i]) : i \in 1..Len(Keys(Get(n, "properties")))}
  ELSE {}

\* the object without those entries
WithoutDangling(n) ==
  LET Named(e) == e \notin DanglingEntries(n)
  IN  Set(n, "required", JArr(SelectSeq(Get(n, "required").v, Named)))

\* the root gives none of type, $ref, allOf, anyOf and oneOf
RootUntyped(n) ==
  \A kw \in {"type", "$ref", "allOf", "anyOf", "oneOf"} : ~Defined(Get(n, kw))

\* C17 as stated: an object schema that has no error once the entries of
\* required that name no property are taken out, has with them no error
\* either, is valid and has a warning; a root that gives none of type, $ref,
\* allOf, anyOf and oneOf and is otherwise without error is valid and has a
\* warning
DanglingRequiredWarns ==
  lastOp.op = "textChange" /\ JSONparse(lastOp.arg).ok /\ IsObj(schemaObject) =>
    /\ /\ TypeIs(schemaObject, "object")
       /\ DanglingEntries(schemaObject) # {}
       /\ validateJsonSchema(WithoutDangling(schemaObject)).errors = <<>>
       => isValidSchema /\ validationErrors = <<>> /\ validationWarnings # <<>>
    /\ /\ RootUntyped(schemaObject)
       /\ validateJsonSchema(Set(schemaObject, "type", JStr("object"))).errors = <<>>
       => isValidSchema /\ validationErrors = <<>> /\ validationWarnings # <<>>

(***************************************************************************)
(* Properties of a type change                                             *)
(***************************************************************************)

\* the operations that change the type of a node
TypeChangeOps == {"updateSchemaType", "propertyTypeSelect", "updateArrayItemType"}

\* the node without its title, its description and its default
Constraints(n) == Delete(Delete(Delete(n, "title"), "description"), "default")

\* the default shapes of a type: the library's and the object sub-editor's
DefaultShapes(type) == {getDefaultSchemaForType(type), getDefaultSchemaForType_local(type)}

\* C18 as stated: a type change of the root, of a property, of a nested
\* property or of an array's items emits at that place the default shape of the
\* new type with the non-empty title and description the node had, and with
\* no other field of the old node
TypeChangeKeepsTitle ==
  [][lastOp'.op \in TypeChangeOps =>
       LET old == GetIn(localSchema, lastOp'.at)
           new == GetIn(lastOp'.emitted[1], lastOp'.at)
       IN  /\ \A f \in {"title", "description"} :
                Truthy(Get(old, f)) => Get(new, f) = Get(old, f)
           /\ Constraints(new) \in DefaultShapes(lastOp'.arg)]_vars

\* the value is one of the type
OfType(x, type) ==
  CASE type = "string" -> IsStr(x)
    [] type \in {"number", "integer"} -> IsNum(x)
    [] type = "boolean" -> x.k = "bool"
    [] type = "array" -> IsArr(x)
    [] type = "object" -> IsObj(x)
    [] OTHER -> FALSE

\* the default the claim gives the node of the new type: the converted one,
\* the array or the object kept, an empty array or object otherwise, none when
\* the default cannot be converted
ConvertedDefault(old, type) ==
  CASE type = "string" -> JStr(StringOf(old))
    [] type \in {"number", "integer"} -> IF IsNum(NumberOf(old)) THEN NumberOf(old) ELSE Undefined
    [] type = "boolean" -> JBool(Truthy(old))
    [] type = "array" -> IF IsArr(old) THEN old ELSE JArr(<<>>)
    [] type = "object" -> IF IsObj(old) THEN old ELSE JObj(<<>>)
    [] OTHER -> Undefined

\* C19 as stated: updateSchemaType on a node with a default does not throw and
\* emits; the emitted node has no default that is not of the new type; a
\* default that can be converted is there converted, an array is kept for
\* array and an object for object, and any other default becomes the empty
\* array or object
DefaultConverted ==
  [][lastOp'.op = "updateSchemaType" /\ Defined(Get(localSchema, "default")) =>
       /\ ~lastOp'.threw
       /\ lastOp'.emitted # <<>>
       /\ LET new == Get(lastOp'.emitted[1], "default")
          IN  /\ Defined(new) => OfType(new, lastOp'.arg)
              /\ new = ConvertedDefault(Get(localSchema, "default"), lastOp'.arg)]_vars

(***************************************************************************)
(* Properties of a field edit                                              *)
(***************************************************************************)

\* the operations that edit a field of a node
FieldOps == {"updateField", "updatePropertyField"}

\* the keys of a node as a set
KeySet(n) == {Keys(n)[i] : i \in 1..Len(Keys(n))}

\* the value a form field gives is empty
Empty(value) == value.k \in {"null", "undefined"} \/ value = JStr("")

\* C20 as stated: a field edit with an empty value (null, undefined or the
\* empty string) emits the node without that field, any other value (false
\* and 0 among them) is stored under the field, and every other field of the
\* node is as it was; this for the fields of the root and for the fields in
\* the row of a property
ClearedFieldRemoved ==
  [][lastOp'.op \in FieldOps =>
       LET old   == GetIn(localSchema, lastOp'.at)
           new   == GetIn(lastOp'.emitted[1], lastOp'.at)
           value == JSONparse(lastOp'.arg).val
       IN  /\ Empty(value) => ~HasKey(new, lastOp'.key)
           /\ ~Empty(value) => Get(new, lastOp'.key) = value
           /\ KeySet(new) \ {lastOp'.key} = KeySet(old) \ {lastOp'.key}
           /\ \A k \in KeySet(old) \ {lastOp'.key} : Get(new, k) = Get(old, k)]_vars

(***************************************************************************)
(* Properties of the sub-editors                                           *)
(***************************************************************************)

\* C21 as stated: an operation of a sub-editor that changes anything emits a
\* node, and the node the sub-editor received, its properties, required and
\* items included, is after the operation what it was before
SubEditorReplacesNode ==
  [][StartsWith(lastOp'.op, "sub:") =>
       /\ lastOp'.received = GetIn(localSchema, lastOp'.at)
       /\ localSchema' # localSchema => lastOp'.emitted # <<>>]_vars

(***************************************************************************)
(* Properties of the storage                                               *)
(***************************************************************************)

\* C22 as stated: when another tab writes a record under the editor's key, the
\* raw text becomes the record's jsonSchemaText and the tree is parsed from it
CrossTabPropagates ==
  [][lastOp'.op = "handleStorageChange" /\ lastOp'.arg # "" =>
       /\ jsonSchemaText' = lastOp'.arg
       /\ JSONparse(lastOp'.arg).ok => schemaObject' = JSONparse(lastOp'.arg).val]_vars

RECURSIVE SampleByType(_)
\* the sample the claim gives a node: the default a node has, else its
\* example, else the value of its type; one sample of items; the samples of
\* the properties
SampleByType(schema) ==
  LET First(fields, last) ==
        IF fields # <<>> /\ HasKey(schema, fields[1]) THEN Get(schema, fields[1])
        ELSE IF Len(fields) > 1 /\ HasKey(schema, fields[2]) THEN Get(schema, fields[2])
        ELSE last
      properties == Get(schema, "properties")
  IN  CASE TypeIs(schema, "string") -> First(<<"default", "example">>, JStr("example string"))
        [] TypeIs(schema, "number") \/ TypeIs(schema, "integer") ->
             First(<<"default", "example">>, JNum(42))
        [] TypeIs(schema, "boolean") -> First(<<"default">>, JBool(TRUE))
        [] TypeIs(schema, "array") ->
             IF HasKey(schema, "items") THEN JArr(<<SampleByType(Get(schema, "items"))>>)
             ELSE JArr(<<>>)
        [] TypeIs(schema, "object") ->
             JObj([i \in 1..Len(Keys(properties)) |->
                     <<properties.v[i][1], SampleByType(properties.v[i][2])>>])
        [] OTHER -> JNull

\* C24 as stated: the sample generated from a schema that gives a type is, by
\* type, the node's default if it has one, else its example, else "example
\* string", 42 or true; an array of the one sample of items, empty without
\* items; the object of the samples of the properties
SampleFollowsType ==
  [][lastOp'.op = "generateSampleData" /\ ~lastOp'.threw /\ Defined(Get(schemaObject, "type")) =>
       clipboard' = JSONstringify2(SampleByType(JSONparse(jsonSchemaText).val))]_vars

(***************************************************************************)
(* Properties of the nesting depth                                         *)
(***************************************************************************)
RECURSIVE Depth(_)
\* the number of levels below schema of its most deeply nested property
Depth(schema) ==
  LET properties == Get(schema, "properties")
      Deeper     == {Depth(properties.v[i][2]) : i \in 1..Len(properties.v)}
  IN  IF ~IsObj(properties) \/ properties.v = <<>> THEN 0
      ELSE 1 + CHOOSE d \in Deeper : \A e \in Deeper : e <= d

\* the operations that add a property or nest one
NestingOps == {"addObjectProperty", "sub:addObjectProperty", "handleDrop"}

\* C25 as stated: from a tree in which no property is nested more than ten
\* levels below the root, adding a property or dropping one leaves no property
\* nested more than ten levels below the root
NestingBounded ==
  [][(lastOp'.op \in NestingOps /\ Depth(localSchema) <= maxDepth)
       => Depth(localSchema') <= maxDepth]_vars

\* a nest-drop has put a property eleven levels below the root
NestedTooDeep ==
  /\ lastOp.op = "handleDrop"
  /\ lastOp.arg = "nest"
  /\ Depth(localSchema) = maxDepth + 1

(***************************************************************************)
(* Properties of what a nest-drop moves                                    *)
(***************************************************************************)
RECURSIVE LocsBelow(_, _)
\* the locations of the properties of schema at every level, whatever the
\* type of the node that holds them
LocsBelow(schema, loc) ==
  LET properties == Get(schema, "properties")
  IN  IF ~IsObj(properties) THEN {}
      ELSE UNION {{loc \o <<properties.v[i][1]>>}
                  \cup LocsBelow(properties.v[i][2], loc \o <<properties.v[i][1]>>) :
                  i \in 1..Len(properties.v)}

\* a node without what it holds below: its properties and the required list
\* that follows them
Own(node) == Delete(Delete(node, "properties"), "required")

\* the properties of the tree: where each is and what it is
PropertiesOf(tree) == {<<l, Own(GetIn(tree, RawPath(l)))>> : l \in LocsBelow(tree, <<>>)}

\* where the property at l is once the subtree at from hangs below to
MovedTo(l, from, to) ==
  IF IsPrefix(from, l) THEN to \o SubSeq(l, Len(from) + 1, Len(l)) ELSE l

\* C26 as stated: a committed nest-drop moves exactly one property: the
\* dragged property leaves its source parent, it is inserted with the dragged
\* node's value in the target, every other property keeps its parent, key and
\* value, and the number of properties of the tree is unchanged
NestDropMovesOne ==
  [][(lastOp'.op = "handleDrop" /\ lastOp'.arg = "nest" /\ lastOp'.emitted # <<>>) =>
       \A src \in DraggedFrom :
         /\ ~HasKey(PropertiesAt(localSchema', Front(src)), Last(src))
         /\ \E key \in {Keys(PropertiesAt(localSchema', lastOp'.at))[i] :
                          i \in 1..Len(Keys(PropertiesAt(localSchema', lastOp'.at)))} :
              /\ Get(PropertiesAt(localSchema', lastOp'.at), key)
                   = GetIn(localSchema, RawPath(src))
              /\ PropertiesOf(localSchema')
                   = {<<MovedTo(p[1], src, lastOp'.at \o <<key>>), p[2]>> :
                      p \in PropertiesOf(localSchema)}
         /\ Cardinality(LocsBelow(localSchema', <<>>))
              = Cardinality(LocsBelow(localSchema, <<>>))]_vars

\* a committed nest-drop left the dragged property under its source parent
\* as well
DroppedTwice ==
  /\ lastOp.op = "handleDrop"
  /\ lastOp.arg = "nest"
  /\ lastOp.emitted # <<>>
  /\ \E l \in LocsBelow(localSchema, <<>>) :
       /\ Front(l) = lastOp.at
       /\ \E m \in LocsBelow(localSchema, <<>>) :
            /\ Front(m) # lastOp.at
            /\ Last(m) = Last(l)
            /\ GetIn(localSchema, RawPath(m)) = GetIn(localSchema, RawPath(l))

(***************************************************************************)
(* Properties of the validation after a nest-drop                          *)
(***************************************************************************)
\* the tree a nest-drop on the property at loc hands to its validation: the
\* dragged property removed from its parent and added to the target
DropCandidate(loc) ==
  LET removal == removePropertyFromPath(localSchema, draggedItemData.v.key,
                                        draggedItemData.v.parentPath)
  IN  addPropertyToTarget(removal.tree, draggedItemData.v.key, draggedItemData.v.schema,
                          RawPath(loc), removal.removed)

\* the drop on loc reaches its validation: neither step before it raised
ReachesValidation(loc) ==
  /\ ~removePropertyFromPath(localSchema, draggedItemData.v.key,
                             draggedItemData.v.parentPath).threw
  /\ ~DropCandidate(loc).threw

\* the shape validator reports no errors for tree
ShapeValid(tree) ==
  /\ ~validateSchemaStructure(tree, "root").threw
  /\ validateSchemaStructure(tree, "root").errors = <<>>

\* C27 as stated: the validation run after a nest-drop is the shape
\* validator: a nest-drop admitted by canDropToTarget that reaches its
\* validation is committed exactly when the shape validator reports no errors
\* for the tree with the property moved, and the post-drop check and the
\* shape validator agree on the tree before the drop as well
PostDropIsShapeValidator ==
  [][(lastOp'.op = "handleDrop" /\ lastOp'.arg = "nest" /\ ReachesValidation(lastOp'.at)) =>
       /\ (lastOp'.emitted # <<>>) <=> ShapeValid(DropCandidate(lastOp'.at).tree)
       /\ (validateSchemaIntegrity(localSchema).errors = <<>>) <=> ShapeValid(localSchema)]_vars

\* a nest-drop was rolled back on a tree the shape validator has no error for
RolledBackShapeValid ==
  /\ lastOp.op = "handleDrop"
  /\ lastOp.arg = "nest"
  /\ lastOp.emitted = <<>>
  /\ lastOp.threw
  /\ ShapeValid(localSchema)
  /\ validateSchemaIntegrity(localSchema).errors # <<>>

(***************************************************************************)
(* Properties of a drop after the tree was replaced                        *)
(***************************************************************************)
\* the keys the step put among the properties of the property at loc
InsertedAt(loc) == KeySet(PropertiesAt(localSchema', loc)) \ KeySet(PropertiesAt(localSchema, loc))

\* C28 as stated: a committed nest-drop, whatever replaced the tree since the
\* drag began, takes the dragged property from a place where the tree at drop
\* time holds it, and inserts in the target one node, equal to the value the
\* dragged property has in the tree at drop time
DropWritesCurrent ==
  [][(lastOp'.op = "handleDrop" /\ lastOp'.arg = "nest" /\ lastOp'.emitted # <<>>) =>
       /\ DraggedFrom # {}
       /\ InsertedAt(lastOp'.at) # {}
       /\ \A src \in DraggedFrom : \A key \in InsertedAt(lastOp'.at) :
            Get(PropertiesAt(localSchema', lastOp'.at), key)
              = GetIn(localSchema, RawPath(src))]_vars

(***************************************************************************)
(* Properties of the synchronization chain                                 *)
(***************************************************************************)
\* the editors at rest in the current state
AtRest == Editors(jsonSchemaText, schemaObject, isValidSchema, localSchema, jsonSchemaText)

\* the step is one edit event: a text change in the code editor or one
\* emitted update of the visual editor
IsEditEvent == lastOp'.op = "textChange" \/ Len(lastOp'.emitted) = 1

\* the editors after the deliveries the step's edit event sets off
Settled ==
  IF lastOp'.op = "textChange" THEN onDidChangeModelContent(AtRest, lastOp'.arg, MaxRounds)
  ELSE schemaUpdated(AtRest, lastOp'.emitted[1], MaxRounds)

\* C29: after one edit event the chain is at rest within MaxRounds
\* deliveries: the code editor's echo of the value it holds changes nothing
\* more, the editors hold what the step left, and a text that parses has
\* schemaObject equal to its parse and isValidSchema equal to the validity of
\* that parse
SyncQuiesces ==
  [][IsEditEvent =>
       \E s \in {Settled} : \E p \in {JSONparse(jsonSchemaText')} :
         /\ s.quiet
         /\ s.rounds < MaxRounds
         /\ updateEditorValue(s.content, s.text) = <<>>
         /\ valueUpdated(s, s.content, MaxRounds) = s
         /\ jsonSchemaText' = s.text
         /\ schemaObject' = s.object
         /\ isValidSchema' = s.valid
         /\ localSchema' = s.local
         /\ p.ok => (/\ schemaObject' = p.val
                     /\ isValidSchema' = validateJsonSchema(p.val).valid)]_vars

\* a visual update gave the code editor a new text, and the editors are at
\* rest on its parse
SyncedFromVisual ==
  /\ Len(lastOp.emitted) = 1
  /\ lastOp.op # "textChange"
  /\ JSONparse(jsonSchemaText).ok
  /\ jsonSchemaText = JSONstringify2(lastOp.emitted[1])
  /\ schemaObject = JSONparse(jsonSchemaText).val
  /\ localSchema = watchSchema(schemaObject)

(***************************************************************************)
(* Properties of the nest targets                                          *)
(***************************************************************************)
\* the keys of the root object's properties
TopLevel(tree) == KeySet(Get(tree, "properties"))

====
